---- MODULE Spec2Model ----
(***************************************************************************)
(* Model of the lead-generation agent:                                     *)
(*   - ConversationAgent  (src/src/agents/conversation_agent.py)           *)
(*   - PhantomBusterClient (src/src/integrations/phantombuster.py)         *)
(*   - MondayClient       (src/src/integrations/monday_client.py)          *)
(*   - Settings           (src/src/config/settings.py)                     *)
(* Text is a sequence of characters; each character is a one-symbol        *)
(* string.  Hebrew letters are transliterated to Latin letters.            *)
(***************************************************************************)
EXTENDS Integers, Sequences, FiniteSets, TLC

VARIABLES
    \* ---- ConversationAgent.regenerate_if_invalid ----
    gen_pc,          \* "idle" | "loop" | "returned" | "raised"
    message_type,    \* the message_type argument
    max_attempts,    \* the max_attempts argument
    attempt,         \* loop variable of `for attempt in range(max_attempts)`
    best_message,    \* local best_message
    result,          \* the value returned by regenerate_if_invalid
    calls,           \* calls made to chat.completions.create
    drafts           \* the GeneratedMessage of every generate_message call, in order

VARIABLES
    \* ---- PhantomBusterClient.wait_for_agent ----
    wait_pc,         \* "idle" | "poll" | "sleep" | "returned" | "timeout"
    timeout_seconds, \* the timeout_seconds argument
    poll_interval,   \* the poll_interval argument
    start_time,      \* local start_time
    clock,           \* datetime.now(), in seconds
    polls,           \* get_agent_output calls made by this wait
    sleeps,          \* asyncio.sleep(poll_interval) calls made by this wait
    wait_trace,      \* the status answered by each poll and a "sleep" mark per sleep, in order
    output,          \* the AgentOutput returned by wait_for_agent
    remote_status    \* the job service's status of the agent's most recent run

VARIABLES
    \* ---- MondayClient and the CRM board ----
    board,           \* the CRM board: item id -> [name, cols]; cols maps a column to the value written
    next_id,         \* the id the CRM gives to the next item created
    created,         \* item id -> the Lead that create_lead was given
    got,             \* the value returned by the last get_lead_by_id
    now_minute,      \* datetime.now(), truncated to the minute
    appender,        \* per caller of append_to_conversation_log: its locals
    writes,          \* the conversation-log mutations applied by the CRM, in order
    sequential,      \* no append has started while another was between its read and its write
    orig_log         \* the conversation log stored before the first append

VARIABLES
    \* ---- Settings and the lead pipelines that scrape and send ----
    settings,         \* the Settings instance, read once (get_settings is cached)
    pipeline,         \* per lead: where its scrape -> send pipeline stands
    scrapes_launched, \* profile-scraper launches made today
    sends_launched    \* message-sender launches made today

VARIABLES
    \* ---- ConversationAgent._validate_message, called on its own ----
    val_pc,          \* "idle" | "called" | "returned"
    val_words,       \* the number of words the content argument was written with
    val_content,     \* the content argument
    val_type,        \* the message_type argument
    val_verdict,     \* the tuple returned: [is_valid, errors]
    val_recipe       \* the parts the content argument was written from

VARIABLES
    \* ---- PhantomBusterClient.scrape_linkedin_profile / send_linkedin_message ----
    job_pc,          \* "idle" | "launched" | "done"
    job_kind,        \* "scrape" | "send": the operation called
    job_result,      \* "none" | "profile" | "True" | "Exception" | "TimeoutError"
    job_message,     \* the text of the Exception raised by the operation
    run_error,       \* the `error` text the job service holds for the run launched
    launches,        \* launch requests sent to the job service
    late_polls,      \* get_agent_output calls made after the operation has ended
    late_output      \* the AgentOutput of the last of them

VARIABLES
    \* ---- the last MondayClient mutation call followed to its answer ----
    op_calls,        \* the number of such calls
    op_name,         \* "none" | "create_lead" | "update_lead_status" | "update_lead" | ...
    op_item,         \* the item_id argument (0 for create_lead)
    op_kwargs,       \* the keyword arguments of update_lead
    op_response,     \* the CRM's answer: "none" (no request), "data", "errors", "http_error"
    op_outcome       \* what the call returned or raised

VARIABLES
    \* ---- the network under launch_and_wait ----
    net_failure      \* the first request of the operation that failed: [call, error, requests]

VARIABLES
    \* ---- pipelines that call launch_and_wait with the same agent id ----
    service_runs,    \* the job service's runs of the agent: container id -> status
    runner           \* per pipeline: where its launch_and_wait stands, the run it launched, its output

VARIABLES
    \* ---- the listing reads of MondayClient ----
    list_name,       \* the listing called last
    list_status,     \* the status given to get_leads_by_status
    list_result      \* the list[Lead] returned

genVars == <<gen_pc, message_type, max_attempts, attempt, best_message, result, calls, drafts>>

waitVars == <<wait_pc, timeout_seconds, poll_interval, start_time, clock, polls, sleeps,
              wait_trace, output, remote_status>>

storeVars == <<board, next_id, created, got, now_minute, appender, writes, sequential, orig_log>>

gateVars == <<settings, pipeline, scrapes_launched, sends_launched>>

valVars == <<val_pc, val_words, val_content, val_type, val_verdict, val_recipe>>

jobVars == <<job_pc, job_kind, job_result, job_message, run_error, launches, late_polls, late_output>>

opVars == <<op_calls, op_name, op_item, op_kwargs, op_response, op_outcome>>

netVars == <<net_failure>>

runVars == <<service_runs, runner>>

listVars == <<list_name, list_status, list_result>>

vars == <<genVars, waitVars, storeVars, gateVars, valVars, jobVars, opVars, netVars, runVars, listVars>>

\* what the calls of one client leave alone: the state of the other clients
notGen == <<waitVars, storeVars, gateVars, valVars, jobVars, opVars, netVars, runVars, listVars>>
notWait == <<genVars, storeVars, gateVars, valVars, jobVars, opVars, netVars, runVars, listVars>>
notStore == <<genVars, waitVars, gateVars, valVars, jobVars, opVars, netVars, runVars, listVars>>
notGate == <<genVars, waitVars, storeVars, valVars, jobVars, opVars, netVars, runVars, listVars>>
notVal == <<genVars, waitVars, storeVars, gateVars, jobVars, opVars, netVars, runVars, listVars>>
notJob == <<genVars, waitVars, storeVars, gateVars, valVars, opVars, netVars, runVars, listVars>>
\* what a MondayClient call that is followed to its answer leaves alone
notStoreOp == <<genVars, waitVars, gateVars, valVars, jobVars, netVars, runVars, listVars>>
\* what an operation made of a launch and a wait leaves alone
notJobWait == <<genVars, storeVars, gateVars, valVars, opVars, netVars, runVars, listVars>>
notOp == <<genVars, waitVars, storeVars, gateVars, valVars, jobVars, netVars, runVars, listVars>>
notNet == <<genVars, waitVars, storeVars, gateVars, valVars, jobVars, opVars, runVars, listVars>>
notRun == <<genVars, waitVars, storeVars, gateVars, valVars, jobVars, opVars, netVars, listVars>>
notList == <<genVars, waitVars, storeVars, gateVars, valVars, jobVars, opVars, netVars, runVars>>

----------------------------------------------------------------------------
(* Bounds *)

MaxAttempts == 3

\* largest timeout_seconds and poll_interval passed to wait_for_agent
MaxTimeout == 3
MaxInterval == 2

\* longest duration of one fetch-output request, in seconds
MaxDelay == 1

\* polls after which a wait is no longer followed
MaxPolls == MaxTimeout + 2

\* items the board can hold
MaxItems == 2

\* append_to_conversation_log calls made by one caller
MaxCalls == 2

\* minutes the clock can advance
MaxMinute == 1

\* lead pipelines that run concurrently
MaxPipelines == 3

\* largest daily limit configured
MaxLimit == 2

\* most words in a content handed to _validate_message on its own
MaxWords == 37

\* get_agent_output calls followed after an operation has ended
MaxLatePolls == 2

\* mutation calls followed to their answer
MaxOps == 2

----------------------------------------------------------------------------
(* The state before any call is made *)

\* Python None in the place of a GeneratedMessage
NoMessage ==
    [content |-> <<>>, message_type |-> "None", word_count |-> 0,
     is_valid |-> FALSE, validation_errors |-> <<>>]

\* Python None in the place of an AgentOutput
NoOutput == [status |-> "None"]

\* a ConversationAgent on which no call has been made
GenIdle ==
    /\ gen_pc = "idle"
    /\ message_type = "first_outreach"
    /\ max_attempts = 0
    /\ attempt = 0
    /\ best_message = NoMessage
    /\ result = NoMessage
    /\ calls = 0
    /\ drafts = <<>>

\* a PhantomBusterClient on which no call has been made
WaitIdleButClock ==
    /\ wait_pc = "idle"
    /\ timeout_seconds = 0
    /\ poll_interval = 0
    /\ start_time = 0
    /\ polls = 0
    /\ sleeps = 0
    /\ wait_trace = <<>>
    /\ output = NoOutput

WaitIdle == WaitIdleButClock /\ clock = 0 /\ remote_status = "finished"

\* Python None in the place of a str
None == <<"<None>">>

\* Python None in the place of a Lead
NoLead == [item_id |-> 0]

\* the callers of append_to_conversation_log that may run concurrently
Appenders == {"a", "b"}

\* the locals of a caller that is not inside append_to_conversation_log
AppenderIdle ==
    [pc |-> "idle", calls |-> 0, message |-> <<>>, current_log |-> <<>>, new_log |-> <<>>,
     timestamp |-> 0, read_after |-> 0]

\* a MondayClient on which no call has been made, with an empty board
StoreIdle ==
    /\ board = <<>>
    /\ next_id = 1
    /\ created = <<>>
    /\ got = NoLead
    /\ now_minute = 0
    /\ appender = [p \in Appenders |-> AppenderIdle]
    /\ writes = <<>>
    /\ sequential = TRUE
    /\ orig_log = <<>>

\* the lead pipelines
Pipelines == 1..MaxPipelines

\* Settings() with the defaults of its fields
DefaultSettings ==
    [daily_message_limit |-> 10, daily_profile_view_limit |-> 20, require_human_approval |-> TRUE]

\* no pipeline has started
GateIdleButSettings ==
    /\ pipeline = [l \in Pipelines |-> "idle"]
    /\ scrapes_launched = 0
    /\ sends_launched = 0

GateIdle == GateIdleButSettings /\ settings = DefaultSettings

\* a content written from no parts
NoRecipe == [body |-> 0, dash |-> "none", meeting |-> 0, flattery |-> <<>>, pad |-> <<>>]

\* no _validate_message call has been made on its own
ValIdle ==
    /\ val_recipe = NoRecipe
    /\ val_pc = "idle"
    /\ val_words = 0
    /\ val_content = <<>>
    /\ val_type = "first_outreach"
    /\ val_verdict = [is_valid |-> FALSE, errors |-> <<>>]

\* no scrape or send has been called
JobIdle ==
    /\ job_pc = "idle"
    /\ job_kind = "scrape"
    /\ job_result = "none"
    /\ job_message = <<>>
    /\ run_error = <<>>
    /\ launches = 0
    /\ late_polls = 0
    /\ late_output = NoOutput

\* no mutation call has been followed
OpIdle ==
    /\ op_calls = 0
    /\ op_name = "none"
    /\ op_item = 0
    /\ op_kwargs = <<>>
    /\ op_response = "none"
    /\ op_outcome = "none"

\* no request has failed
NoFailure == [call |-> "none", error |-> "none", requests |-> 0]

NetIdle == net_failure = NoFailure

\* the pipelines that share one agent id
Runners == {"p1", "p2"}

\* a pipeline that has not called launch_and_wait
RunnerIdle == [pc |-> "idle", container |-> 0, output |-> [container_id |-> 0, status |-> "None"]]

\* no pipeline has called launch_and_wait and the agent has never run
RunIdle ==
    /\ service_runs = <<>>
    /\ runner = [p \in Runners |-> RunnerIdle]

\* no listing has been called
ListIdle ==
    /\ list_name = "none"
    /\ list_status = <<>>
    /\ list_result = <<>>

----------------------------------------------------------------------------
(* Python str helpers *)

\* str.isspace() for one character
IsSpace(c) == c \in {" ", "\n"}

RECURSIVE LStrip(_)
LStrip(s) == IF s # <<>> /\ IsSpace(Head(s)) THEN LStrip(Tail(s)) ELSE s

RECURSIVE RStrip(_)
RStrip(s) ==
    IF s # <<>> /\ IsSpace(s[Len(s)]) THEN RStrip(SubSeq(s, 1, Len(s) - 1)) ELSE s

\* str.strip()
Strip(s) == LStrip(RStrip(s))

\* a count that takes every whitespace character for a separator, as len(s.split(" ")) does
WordCountBySeparators(s) ==
    Cardinality({i \in 1..Len(s) : IsSpace(s[i])}) + 1

\* len(s.split()): the number of maximal runs of non-whitespace characters
WordCount(s) ==
    Cardinality({i \in 1..Len(s) : ~IsSpace(s[i]) /\ (i = 1 \/ IsSpace(s[i - 1]))})

\* `sub in s`
Contains(sub, s) ==
    \E i \in 1..(Len(s) - Len(sub) + 1) : SubSeq(s, i, i + Len(sub) - 1) = sub

\* s.startswith(p)
StartsWith(s, p) == Len(p) <= Len(s) /\ SubSeq(s, 1, Len(p)) = p

----------------------------------------------------------------------------
(* ConversationAgent *)

MessageType == {"first_outreach", "follow_up", "reply", "meeting_request"}

\* meeting_words = ["פגישה", "להיפגש", "נפגש", "לקבוע"]
meeting_words ==
    << <<"p", "g", "y", "s", "h">>,
       <<"l", "h", "y", "p", "g", "s">>,
       <<"n", "p", "g", "s">>,
       <<"l", "q", "b", "w", "e">> >>

\* flattery_words = ["מרשים", "מעריץ", "אוהב", "נהדר", "מדהים", "מושלם"]
flattery_words ==
    << <<"m", "r", "s", "y", "M">>,
       <<"m", "e", "r", "y", "Z">>,
       <<"a", "w", "h", "b">>,
       <<"n", "h", "d", "r">>,
       <<"m", "d", "h", "y", "M">>,
       <<"m", "w", "s", "l", "M">> >>

\* the threshold of `if word_count > 35`
WordLimit == 35

\* the error strings appended by _validate_message
WordCountError(n) == [rule |-> "word_count", count |-> n, word |-> <<>>]
DashError == [rule |-> "dash", count |-> 0, word |-> <<>>]
EmptyError == [rule |-> "empty", count |-> 0, word |-> <<>>]
MeetingError == [rule |-> "meeting", count |-> 0, word |-> <<>>]
FlatteryError(w) == [rule |-> "flattery", count |-> 0, word |-> w]

\* a loop without its break: one error for every flattery word found
EveryFlattery(content) ==
    LET hits == {i \in 1..Len(flattery_words) : Contains(flattery_words[i], content)}
        RECURSIVE From(_)
        From(i) ==
            IF i > Len(flattery_words) THEN <<>>
            ELSE (IF i \in hits THEN <<FlatteryError(flattery_words[i])>> ELSE <<>>) \o From(i + 1)
    IN  From(1)

\* the loop `for word in flattery_words: if word in content: ...; break`
FirstFlattery(content) ==
    LET hits == {i \in 1..Len(flattery_words) : Contains(flattery_words[i], content)}
    IN  IF hits = {} THEN <<>>
        ELSE <<FlatteryError(flattery_words[CHOOSE i \in hits : \A j \in hits : i <= j])>>

\* a validator that applies the keyword rules to every message type
ValidationErrorsForEveryType(content, mtype) ==
    (IF WordCount(content) > WordLimit THEN <<WordCountError(WordCount(content))>> ELSE <<>>)
    \o (IF \/ Contains(<<" ", "-", " ">>, content)
           \/ Contains(<<"EN_DASH">>, content)
           \/ Contains(<<"EM_DASH">>, content)
        THEN <<DashError>> ELSE <<>>)
    \o (IF Strip(content) = <<>> THEN <<EmptyError>> ELSE <<>>)
    \o (IF \E i \in 1..Len(meeting_words) : Contains(meeting_words[i], content)
        THEN <<MeetingError>> ELSE <<>>)
    \o FirstFlattery(content)

\* the list `errors` built by _validate_message
ValidationErrors(content, mtype) ==
    (IF WordCount(content) > WordLimit THEN <<WordCountError(WordCount(content))>> ELSE <<>>)
    \o (IF \/ Contains(<<" ", "-", " ">>, content)
           \/ Contains(<<"EN_DASH">>, content)
           \/ Contains(<<"EM_DASH">>, content)
        THEN <<DashError>> ELSE <<>>)
    \o (IF Strip(content) = <<>> THEN <<EmptyError>> ELSE <<>>)
    \o (IF /\ mtype = "first_outreach"
           /\ \E i \in 1..Len(meeting_words) : Contains(meeting_words[i], content)
        THEN <<MeetingError>> ELSE <<>>)
    \o (IF mtype = "first_outreach" THEN FirstFlattery(content) ELSE <<>>)

\* a mis-computed flag: validity decided by the word-count rule alone
ValidateMessageWordCountOnly(content, mtype) ==
    [is_valid |-> WordCount(content) <= WordLimit,
     errors |-> ValidationErrors(content, mtype)]

\* _validate_message: `return len(errors) == 0, errors`
ValidateMessage(content, mtype) ==
    [is_valid |-> Len(ValidationErrors(content, mtype)) = 0,
     errors |-> ValidationErrors(content, mtype)]

\* a generate_message that reports every content as valid
GenerateMessageAlwaysValid(raw, mtype) ==
    LET content == Strip(IF raw.has_content THEN raw.content ELSE <<>>)
        verdict == ValidateMessage(content, mtype)
    IN  [content |-> content,
         message_type |-> mtype,
         word_count |-> WordCount(content),
         is_valid |-> TRUE,
         validation_errors |-> verdict.errors]

\* generate_message, after the completion has returned `raw`
\* (raw.has_content = FALSE is `message.content is None`)
GenerateMessage(raw, mtype) ==
    LET content == Strip(IF raw.has_content THEN raw.content ELSE <<>>)
        verdict == ValidateMessage(content, mtype)
    IN  [content |-> content,
         message_type |-> mtype,
         word_count |-> WordCount(content),
         is_valid |-> verdict.is_valid,
         validation_errors |-> verdict.errors]

----------------------------------------------------------------------------
(* The generative text service: what chat.completions.create may answer *)

\* n one-letter words separated by single spaces
RECURSIVE Words(_)
Words(n) == IF n = 0 THEN <<>> ELSE IF n = 1 THEN <<"x">> ELSE <<"x", " ">> \o Words(n - 1)

Texts ==
    { <<"a", "b", " ", "c">>,                                  \* two plain words
      <<" ", "a", "\n">>,                                      \* padded with whitespace
      <<"a", " ", "-", " ", "b">>,                             \* spaced hyphen
      <<" ", "-", " ", "a">>,                                  \* hyphen that leads after strip
      <<"a", "EN_DASH", "b">>,                                 \* long dash
      <<>>,                                                    \* empty text
      <<" ", "\n">>,                                           \* whitespace only
      Words(WordLimit),                                        \* exactly at the limit
      Words(WordLimit + 1),                                    \* one word over the limit
      <<"p", "g", "y", "s", "h">>,                             \* a meeting word
      <<"n", "h", "d", "r", " ", "a", "w", "h", "b">>,         \* two flattery words
      <<"m", "r", "s", "y", "M", " ", "-", " ", "n", "p", "g", "s">>,   \* flattery, dash, meeting
      Words(WordLimit + 1) \o <<" ", "-", " ", "l", "q", "b", "w", "e", " ", "m", "w", "s", "l", "M">> }

\* a completion: it fails (ok = FALSE), or carries content, or carries None
Responses ==
    {[ok |-> TRUE, has_content |-> TRUE, content |-> t] : t \in Texts}
    \cup {[ok |-> TRUE, has_content |-> FALSE, content |-> <<>>],
          [ok |-> FALSE, has_content |-> FALSE, content |-> <<>>]}

----------------------------------------------------------------------------
(* ConversationAgent.regenerate_if_invalid *)

\* a loop that never leaves early
ReturnsAtOnceNever(message) == FALSE

\* `if message.is_valid: return message`
ReturnsAtOnce(message) == message.is_valid

\* a comparison that also replaces the best message on a tie
KeepBestOnTie(best, message) ==
    IF best = NoMessage \/ Len(message.validation_errors) <= Len(best.validation_errors)
    THEN message ELSE best

\* `if best_message is None or len(message.validation_errors) < len(best_message.validation_errors)`
KeepBest(best, message) ==
    IF best = NoMessage \/ Len(message.validation_errors) < Len(best.validation_errors)
    THEN message ELSE best

\* the call regenerate_if_invalid(lead, message_type, last_message, max_attempts);
\* with max_attempts = 0 the loop body never runs and best_message (None) is returned
RegenerateIfInvalid(mtype, n) ==
    /\ gen_pc = "idle"
    /\ message_type' = mtype
    /\ max_attempts' = n
    /\ attempt' = 0
    /\ best_message' = NoMessage
    /\ calls' = 0
    /\ drafts' = <<>>
    /\ IF n = 0
       THEN gen_pc' = "returned" /\ result' = NoMessage
       ELSE gen_pc' = "loop" /\ result' = result
    /\ UNCHANGED notGen

\* one iteration of the loop: the completion call returns `raw`
RegenerateAttempt(raw) ==
    /\ gen_pc = "loop"
    /\ raw.ok
    /\ calls' = calls + 1
    /\ LET message == GenerateMessage(raw, message_type)
       IN  /\ drafts' = Append(drafts, message)
           /\ IF ReturnsAtOnce(message)
              THEN /\ gen_pc' = "returned"
                   /\ result' = message
                   /\ UNCHANGED <<attempt, best_message>>
              ELSE /\ best_message' = KeepBest(best_message, message)
                   /\ attempt' = attempt + 1
                   /\ IF attempt + 1 = max_attempts
                      THEN gen_pc' = "returned" /\ result' = best_message'
                      ELSE gen_pc' = "loop" /\ result' = result
    /\ UNCHANGED <<message_type, max_attempts>>
    /\ UNCHANGED notGen

\* one iteration of the loop: the completion call raises, and nothing catches it
RegenerateAttemptRaises(raw) ==
    /\ gen_pc = "loop"
    /\ ~raw.ok
    /\ calls' = calls + 1
    /\ gen_pc' = "raised"
    /\ UNCHANGED <<message_type, max_attempts, attempt, best_message, result, drafts>>
    /\ UNCHANGED notGen

InitGen == GenIdle /\ WaitIdle /\ StoreIdle /\ GateIdle /\ ValIdle /\ JobIdle /\ OpIdle /\ NetIdle /\ RunIdle /\ ListIdle

NextGen ==
    \/ \E mtype \in MessageType, n \in 0..MaxAttempts : RegenerateIfInvalid(mtype, n)
    \/ \E raw \in Responses : RegenerateAttempt(raw)
    \/ \E raw \in Responses : RegenerateAttemptRaises(raw)

SpecGen == InitGen /\ [][NextGen]_vars

----------------------------------------------------------------------------
(* Claims about regenerate_if_invalid and the validator *)

\* C1: regenerate_if_invalid makes at most max_attempts completion calls and
\* returns at once on the first valid draft: a valid draft is always the last
\* one produced, it is the value returned, and the number of calls made is its
\* position.
C1_ReturnsFirstValid ==
    /\ calls <= max_attempts
    /\ Len(drafts) <= calls
    /\ \A k \in 1..Len(drafts) :
          drafts[k].is_valid =>
              /\ k = Len(drafts)
              /\ calls = k
              /\ gen_pc = "returned"
              /\ result = drafts[k]

\* C1 witness: three attempts, only the third valid, returned after 3 calls
C1_Witness ==
    /\ gen_pc = "returned"
    /\ max_attempts = 3
    /\ calls = 3
    /\ Len(drafts) = 3
    /\ ~drafts[1].is_valid
    /\ ~drafts[2].is_valid
    /\ drafts[3].is_valid
    /\ result = drafts[3]

\* C2: when regenerate_if_invalid (max_attempts >= 1) returns and no attempt
\* was valid, the value returned is one of the drafts produced, unmodified,
\* with the fewest errors of all attempts, and every earlier draft has
\* strictly more errors.
C2_ReturnsLeastBadEarliest ==
    (/\ gen_pc = "returned"
     /\ max_attempts >= 1
     /\ \A j \in 1..Len(drafts) : ~drafts[j].is_valid)
    => /\ Len(drafts) = max_attempts
       /\ \E k \in 1..Len(drafts) :
             /\ result = drafts[k]
             /\ \A j \in 1..Len(drafts) :
                   Len(drafts[j].validation_errors) >= Len(drafts[k].validation_errors)
             /\ \A j \in 1..(k - 1) :
                   Len(drafts[j].validation_errors) > Len(drafts[k].validation_errors)

\* C2 witness: three invalid drafts with 2, 1 and 1 errors; the second is returned
C2_Witness ==
    /\ gen_pc = "returned"
    /\ Len(drafts) = 3
    /\ \A j \in 1..3 : ~drafts[j].is_valid
    /\ Len(drafts[1].validation_errors) = 2
    /\ Len(drafts[2].validation_errors) = 1
    /\ Len(drafts[3].validation_errors) = 1
    /\ drafts[2] # drafts[3]
    /\ result = drafts[2]

\* C10: in every draft built by generate_message and in the value returned by
\* regenerate_if_invalid, is_valid is true exactly when validation_errors is
\* empty.
C10_ValidIffNoErrors ==
    /\ \A k \in 1..Len(drafts) :
          drafts[k].is_valid <=> (drafts[k].validation_errors = <<>>)
    /\ (gen_pc = "returned" /\ result # NoMessage) =>
          (result.is_valid <=> (result.validation_errors = <<>>))

\* C10 witness: an invalid draft with several errors followed by a valid one
C10_Witness ==
    /\ gen_pc = "returned"
    /\ Len(drafts) = 2
    /\ Len(drafts[1].validation_errors) >= 2
    /\ ~drafts[1].is_valid
    /\ drafts[2].is_valid
    /\ drafts[2].validation_errors = <<>>
    /\ result = drafts[2]

----------------------------------------------------------------------------
(* PhantomBusterClient: get_agent_output and wait_for_agent *)

\* the status vocabulary of the job service
ServiceStatus == {"launching", "running", "finished", "error"}

\* get_agent_output: FINISHED unless the service says "running" or "error"
AgentStatusOf(raw) ==
    IF raw = "running" THEN "running"
    ELSE IF raw = "error" THEN "error"
    ELSE "finished"

\* the AgentOutput built by get_agent_output from the service's answer
AgentOutput(raw) == [status |-> AgentStatusOf(raw)]

\* a wait that takes only a finished run for done
IsDoneOnlyFinished(out) == out.status = "finished"

\* `if output.status != AgentStatus.RUNNING: return output`
IsDone(out) == out.status # "running"

\* a wait that never gives up
TimedOutNever(elapsed, timeout) == FALSE

\* `if elapsed > timeout_seconds: raise TimeoutError`
TimedOut(elapsed, timeout) == elapsed > timeout

\* a wait that checks the timeout before its first poll
WaitForAgentGivesUpAtZero(t, p) ==
    /\ wait_pc = "idle"
    /\ timeout_seconds' = t
    /\ poll_interval' = p
    /\ start_time' = clock
    /\ wait_pc' = (IF t = 0 THEN "timeout" ELSE "poll")
    /\ UNCHANGED <<clock, polls, sleeps, wait_trace, output, remote_status>>
    /\ UNCHANGED notWait

\* the call wait_for_agent(agent_id, timeout_seconds, poll_interval): start_time = now
WaitForAgent(t, p) ==
    /\ wait_pc = "idle"
    /\ timeout_seconds' = t
    /\ poll_interval' = p
    /\ start_time' = clock
    /\ wait_pc' = "poll"
    /\ UNCHANGED <<clock, polls, sleeps, wait_trace, output, remote_status>>
    /\ UNCHANGED notWait

\* a wait that cancels the run when it gives up: the service then holds it as failed
PollAgentCancelling(d) ==
    /\ wait_pc = "poll"
    /\ polls < MaxPolls
    /\ clock' = clock + d
    /\ polls' = polls + 1
    /\ wait_trace' = Append(wait_trace, remote_status)
    /\ IF IsDone(AgentOutput(remote_status))
       THEN wait_pc' = "returned" /\ output' = AgentOutput(remote_status)
            /\ remote_status' = remote_status
       ELSE /\ output' = output
            /\ IF TimedOut(clock' - start_time, timeout_seconds)
               THEN wait_pc' = "timeout" /\ remote_status' = "error"
               ELSE wait_pc' = "sleep" /\ remote_status' = remote_status
    /\ UNCHANGED <<timeout_seconds, poll_interval, start_time, sleeps>>
    /\ UNCHANGED notWait

\* one get_agent_output request taking d seconds, and the two checks after it
PollAgent(d) ==
    /\ wait_pc = "poll"
    /\ polls < MaxPolls
    /\ clock' = clock + d
    /\ polls' = polls + 1
    /\ wait_trace' = Append(wait_trace, remote_status)
    /\ IF IsDone(AgentOutput(remote_status))
       THEN wait_pc' = "returned" /\ output' = AgentOutput(remote_status)
       ELSE /\ output' = output
            /\ IF TimedOut(clock' - start_time, timeout_seconds)
               THEN wait_pc' = "timeout"
               ELSE wait_pc' = "sleep"
    /\ UNCHANGED <<timeout_seconds, poll_interval, start_time, sleeps, remote_status>>
    /\ UNCHANGED notWait

\* `await asyncio.sleep(poll_interval)`
SleepInterval ==
    /\ wait_pc = "sleep"
    /\ sleeps' = sleeps + 1
    /\ clock' = clock + poll_interval
    /\ wait_trace' = Append(wait_trace, "sleep")
    /\ wait_pc' = "poll"
    /\ UNCHANGED <<timeout_seconds, poll_interval, start_time, polls, output, remote_status>>
    /\ UNCHANGED notWait

\* the job service moves the run on: launching -> running -> finished | error
RemoteStep(s) ==
    /\ \/ remote_status = "launching" /\ s = "running"
       \/ remote_status = "running" /\ s \in {"finished", "error"}
    /\ remote_status' = s
    /\ UNCHANGED <<wait_pc, timeout_seconds, poll_interval, start_time, clock, polls, sleeps,
                   wait_trace, output>>
    /\ UNCHANGED notWait

\* a wait may start at any time and whatever the state of the agent's most recent run
InitWait ==
    /\ GenIdle
    /\ StoreIdle
    /\ GateIdle
    /\ ValIdle
    /\ JobIdle
    /\ OpIdle
    /\ NetIdle
    /\ RunIdle
    /\ ListIdle
    /\ WaitIdleButClock
    /\ clock \in 0..MaxDelay
    /\ remote_status \in ServiceStatus

NextWait ==
    \/ \E t \in 0..MaxTimeout, p \in 0..MaxInterval : WaitForAgent(t, p)
    \/ \E d \in 0..MaxDelay : PollAgent(d)
    \/ SleepInterval
    \/ \E s \in ServiceStatus : RemoteStep(s)

SpecWait == InitWait /\ [][NextWait]_vars

\* a run that the service reports as running for ever, polled with a positive
\* interval so that every sleep advances the clock
InitWaitRunning ==
    /\ GenIdle
    /\ StoreIdle
    /\ GateIdle
    /\ ValIdle
    /\ JobIdle
    /\ OpIdle
    /\ NetIdle
    /\ RunIdle
    /\ ListIdle
    /\ WaitIdleButClock
    /\ clock \in 0..MaxDelay
    /\ remote_status = "running"

NextWaitRunning ==
    \/ \E t \in 0..MaxTimeout, p \in 1..MaxInterval : WaitForAgent(t, p)
    \/ \E d \in 0..MaxDelay : PollAgent(d)
    \/ SleepInterval

\* the event loop runs a coroutine that is ready, and a sleep ends
SpecWaitRunning == InitWaitRunning /\ [][NextWaitRunning]_vars /\ WF_vars(NextWaitRunning)

----------------------------------------------------------------------------
(* Claims about wait_for_agent *)

\* the positions of wait_trace that hold a poll's answer
PollPositions == {i \in 1..Len(wait_trace) : wait_trace[i] # "sleep"}

\* C3: wait_for_agent returns the output of the first poll whose status is
\* not running: every poll but the last answered running, polls and sleeps
\* alternate starting and ending with a poll, so that k polls are separated by
\* k - 1 sleeps of poll_interval each, and the output returned is that of the
\* last poll.
C3_ReturnsFirstNonRunningPoll ==
    /\ \A i \in 1..Len(wait_trace) : (wait_trace[i] = "sleep") <=> (i % 2 = 0)
    /\ \A i \in PollPositions :
          IF i < Len(wait_trace)
          THEN wait_trace[i] = "running"
          ELSE (wait_trace[i] # "running") <=> (wait_pc = "returned")
    /\ polls = Cardinality(PollPositions)
    /\ sleeps = Len(wait_trace) - polls
    /\ wait_pc = "returned" =>
          /\ Len(wait_trace) = 2 * polls - 1
          /\ sleeps = polls - 1
          /\ output = AgentOutput(wait_trace[Len(wait_trace)])
          /\ clock - start_time >= sleeps * poll_interval

\* C3 witness: running, running, finished: 3 polls, 2 sleeps, the finished output
C3_Witness ==
    /\ wait_pc = "returned"
    /\ wait_trace = <<"running", "sleep", "running", "sleep", "finished">>
    /\ polls = 3
    /\ sleeps = 2
    /\ poll_interval > 0
    /\ output.status = "finished"

\* C4: when every poll reports running and each sleep advances the clock,
\* wait_for_agent never returns an output and eventually raises TimeoutError,
\* and it raises only when the elapsed time exceeds timeout_seconds.
C4_RunningForeverTimesOut ==
    /\ [](wait_pc # "returned")
    /\ [](wait_pc = "timeout" => clock - start_time > timeout_seconds)
    /\ <>(wait_pc = "timeout")

\* C4 witness: a timeout raised after several polls that all answered running
C4_Witness ==
    /\ wait_pc = "timeout"
    /\ polls >= 2
    /\ \A i \in PollPositions : wait_trace[i] = "running"
    /\ clock - start_time > timeout_seconds

----------------------------------------------------------------------------
(* The CRM board, as MondayClient writes and reads it *)

\* the keys of COLUMN_IDS
ColumnKeys ==
    {"first_name", "last_name", "company", "position", "linkedin", "status", "last_message",
     "conversation", "score", "email", "phone", "notes", "next_action", "meeting_date", "source"}

\* a CRM that would replace the whole item by the columns sent
ChangeColumnsReplacing(cols, sent) ==
    [k \in DOMAIN sent |-> sent[k]]

\* change_multiple_column_values: the columns sent replace the stored ones, the others stay
ChangeColumns(cols, sent) ==
    [k \in (DOMAIN cols) \cup (DOMAIN sent) |-> IF k \in DOMAIN sent THEN sent[k] ELSE cols[k]]

\* the conversation-log text of an item, as the `text` of its column_values entry
ConversationText(item) ==
    IF "conversation" \in DOMAIN item.cols THEN item.cols["conversation"].text ELSE <<>>

----------------------------------------------------------------------------
(* MondayClient.append_to_conversation_log *)

\* strftime("%Y-%m-%d %H:%M") in brackets: one token that holds no leading or trailing space
Stamp(minute) == <<"[" \o ToString(minute) \o "]">>

\* a new log that forgets the current one
NewLogWithoutCurrent(current_log, timestamp, message) ==
    Strip(Stamp(timestamp) \o <<"\n">> \o message)

\* new_log = f"{current_log}\n\n[{timestamp}]\n{message}".strip()
NewLog(current_log, timestamp, message) ==
    Strip(current_log \o <<"\n", "\n">> \o Stamp(timestamp) \o <<"\n">> \o message)

\* a CRM that would append the caller's entry to whatever is stored at the time of the write
ColumnWrittenOntoStored(stored, current_log, timestamp, message) ==
    [text |-> NewLog(stored, timestamp, message)]

\* column_values = {COLUMN_IDS["conversation"]: {"text": new_log}}: the full column value,
\* computed from the log that was read
ColumnWritten(stored, current_log, timestamp, message) ==
    [text |-> NewLog(current_log, timestamp, message)]

\* the message of the n-th call of caller p: a letter of its own, so that every
\* entry can be told from every other, followed by `tail`
MessageOf(p, n, tail) == <<p \o ToString(n)>> \o tail

MessageTails == {<<>>, <<" ">>}

\* the first request of append_to_conversation_log, answered by the CRM: the
\* read of the item's column_values, then timestamp and new_log are computed
AppendRead(p, tail) ==
    /\ appender[p].pc = "idle"
    /\ appender[p].calls < MaxCalls
    /\ 1 \in DOMAIN board
    /\ LET message == MessageOf(p, appender[p].calls + 1, tail)
           current_log == ConversationText(board[1])
       IN  appender' = [appender EXCEPT ![p] =
               [pc |-> "read",
                calls |-> @.calls + 1,
                message |-> message,
                current_log |-> current_log,
                new_log |-> ColumnWritten(current_log, current_log, now_minute, message).text,
                timestamp |-> now_minute,
                read_after |-> Len(writes)]]
    /\ sequential' = (sequential /\ \A q \in Appenders : appender[q].pc # "read")
    /\ UNCHANGED <<board, next_id, created, got, now_minute, writes, orig_log>>
    /\ UNCHANGED notStore

\* the second request of append_to_conversation_log, applied by the CRM
AppendWrite(p) ==
    /\ appender[p].pc = "read"
    /\ 1 \in DOMAIN board
    /\ LET sent == "conversation" :>
                      ColumnWritten(ConversationText(board[1]), appender[p].current_log,
                                    appender[p].timestamp, appender[p].message)
       IN  /\ board' = [board EXCEPT ![1].cols = ChangeColumns(@, sent)]
           /\ writes' = Append(writes,
                  [caller |-> p,
                   timestamp |-> appender[p].timestamp,
                   message |-> appender[p].message,
                   read_after |-> appender[p].read_after,
                   written |-> sent["conversation"].text])
    /\ appender' = [appender EXCEPT ![p].pc = "idle"]
    /\ UNCHANGED <<next_id, created, got, now_minute, sequential, orig_log>>
    /\ UNCHANGED notStore

\* a minute passes
Tick ==
    /\ now_minute < MaxMinute
    /\ now_minute' = now_minute + 1
    /\ UNCHANGED <<board, next_id, created, got, appender, writes, sequential, orig_log>>
    /\ UNCHANGED notStore

\* the conversation logs an item may hold before the first append: what
\* create_lead wrote from lead.conversation_log
OriginalLogs ==
    { <<>>,
      <<"h", "i">>,
      <<" ", "h", "i">>,
      <<"\n">> }

\* one item on the board, created with some conversation log
InitAppend ==
    /\ GenIdle
    /\ WaitIdle
    /\ GateIdle
    /\ ValIdle
    /\ JobIdle
    /\ OpIdle
    /\ NetIdle
    /\ RunIdle
    /\ ListIdle
    /\ orig_log \in OriginalLogs
    /\ board = <<[name |-> <<"Y", " ", "C">>,
                  cols |-> IF orig_log = <<>>
                           THEN "status" :> [label |-> <<"N", "e", "w">>]
                           ELSE ("status" :> [label |-> <<"N", "e", "w">>])
                                @@ ("conversation" :> [text |-> orig_log])]>>
    /\ next_id = 2
    /\ created = <<>>
    /\ got = NoLead
    /\ now_minute = 0
    /\ appender = [p \in Appenders |-> AppenderIdle]
    /\ writes = <<>>
    /\ sequential = TRUE

NextAppend ==
    \/ \E p \in Appenders, tail \in MessageTails : AppendRead(p, tail)
    \/ \E p \in Appenders : AppendWrite(p)
    \/ Tick

SpecAppend == InitAppend /\ [][NextAppend]_vars

----------------------------------------------------------------------------
(* Claims about append_to_conversation_log *)

\* the conversation log the CRM holds for the item
StoredLog == ConversationText(board[1])

\* an entry as it stands in the log: the bracketed timestamp, a line break and
\* the message, less the whitespace that ends it
EntryOf(w) == RStrip(Stamp(w.timestamp) \o <<"\n">> \o w.message)

\* a log followed by a blank line and one more entry
JoinLog(log, entry) == IF log = <<>> THEN entry ELSE log \o <<"\n", "\n">> \o entry

\* `base` followed by the entries of the first n writes, in order
RECURSIVE LogWithEntries(_, _, _)
LogWithEntries(base, ws, n) ==
    IF n = 0 THEN base ELSE JoinLog(LogWithEntries(base, ws, n - 1), EntryOf(ws[n]))

\* the log stored before the i-th write
LogBefore(i) == IF i = 1 THEN orig_log ELSE writes[i - 1].written

C6_LaterWriteWins ==
    /\ Len(writes) > 0 => StoredLog = writes[Len(writes)].written
    /\ \A j \in 1..Len(writes) :
          /\ Contains(EntryOf(writes[j]), writes[j].written)
          /\ \A i \in 1..(j - 1) :
                Contains(EntryOf(writes[i]), writes[j].written) => writes[j].read_after >= i

\* C6 witness: two callers read the same log, both write, the first entry is gone
C6_Witness ==
    /\ Len(writes) = 2
    /\ writes[1].caller # writes[2].caller
    /\ writes[1].read_after = 0
    /\ writes[2].read_after = 0
    /\ ~sequential
    /\ ~Contains(EntryOf(writes[1]), StoredLog)
    /\ Contains(EntryOf(writes[2]), StoredLog)

----------------------------------------------------------------------------
(* MondayClient.create_lead and get_lead_by_id *)

\* `if value:` for a str or None
Truthy(v) == v # None /\ v # <<>>

\* f"{self.first_name} {self.last_name}".strip()
FullName(lead) == Strip(lead.first_name \o <<" ">> \o lead.last_name)

\* the columns create_lead sends: six always, eight more when the field is truthy
CreateColumns(lead) ==
    {"first_name", "last_name", "company", "position", "linkedin", "status"}
    \cup (IF Truthy(lead.email) THEN {"email"} ELSE {})
    \cup (IF Truthy(lead.phone) THEN {"phone"} ELSE {})
    \cup (IF Truthy(lead.source) THEN {"source"} ELSE {})
    \cup (IF Truthy(lead.conversation_log) THEN {"conversation"} ELSE {})
    \cup (IF Truthy(lead.notes) THEN {"notes"} ELSE {})
    \cup (IF lead.lead_score # 0 THEN {"score"} ELSE {})
    \cup (IF Truthy(lead.next_action_date) THEN {"next_action"} ELSE {})
    \cup (IF Truthy(lead.meeting_date) THEN {"meeting_date"} ELSE {})

\* the dict column_values built by create_lead
CreateColumnValues(lead) ==
    [k \in CreateColumns(lead) |->
        CASE k = "first_name" -> lead.first_name
          [] k = "last_name" -> lead.last_name
          [] k = "company" -> lead.company
          [] k = "position" -> lead.position
          [] k = "linkedin" -> [url |-> lead.linkedin_url, text |-> <<"LinkedIn">>]
          [] k = "status" -> [label |-> lead.status]
          [] k = "email" -> [email |-> lead.email, text |-> lead.email]
          [] k = "phone" -> [phone |-> lead.phone]
          [] k = "source" -> [label |-> lead.source]
          [] k = "conversation" -> [text |-> lead.conversation_log]
          [] k = "notes" -> [text |-> lead.notes]
          [] k = "score" -> lead.lead_score
          [] k = "next_action" -> [date |-> lead.next_action_date]
          [] k = "meeting_date" -> [date |-> lead.meeting_date]]

\* str(n) for n >= 0
RECURSIVE IntToText(_)
IntToText(n) ==
    LET digit == <<"0", "1", "2", "3", "4", "5", "6", "7", "8", "9">>[(n % 10) + 1]
    IN  IF n < 10 THEN <<digit>> ELSE Append(IntToText(n \div 10), digit)

DigitValue(c) ==
    CASE c = "0" -> 0 [] c = "1" -> 1 [] c = "2" -> 2 [] c = "3" -> 3 [] c = "4" -> 4
      [] c = "5" -> 5 [] c = "6" -> 6 [] c = "7" -> 7 [] c = "8" -> 8 [] c = "9" -> 9

RECURSIVE DigitsToInt(_)
DigitsToInt(t) ==
    IF t = <<>> THEN 0 ELSE 10 * DigitsToInt(SubSeq(t, 1, Len(t) - 1)) + DigitValue(t[Len(t)])

\* _parse_number: int(float(value)) if value else 0, and 0 on ValueError
ParseNumber(t) ==
    IF t = <<>> THEN 0
    ELSE IF \A i \in 1..Len(t) : t[i] \in {"0", "1", "2", "3", "4", "5", "6", "7", "8", "9"}
    THEN DigitsToInt(t)
    ELSE 0

\* the `text` the CRM gives for a column, from the value that was written to it
TextOf(k, v) ==
    CASE k \in {"first_name", "last_name", "company", "position"} -> v
      [] k = "linkedin" -> v.text \o <<" ", "-", " ">> \o v.url
      [] k \in {"status", "source"} -> v.label
      [] k = "email" -> v.text
      [] k = "phone" -> v.phone
      [] k \in {"conversation", "notes"} -> v.text
      [] k = "score" -> IntToText(v)
      [] k \in {"last_message", "next_action", "meeting_date"} -> v.date

\* columns.get(COLUMN_IDS[k], {}).get("text", "")
ColumnText(item, k) == IF k \in DOMAIN item.cols THEN TextOf(k, item.cols[k]) ELSE <<>>

\* JSON null in the place of a column's `value`
NullValue == [null |-> TRUE]

\* columns.get(COLUMN_IDS[k], {}).get("value")
ColumnValue(item, k) == IF k \in DOMAIN item.cols THEN item.cols[k] ELSE NullValue

\* _extract_url
ExtractUrl(value) == IF value = NullValue THEN <<>> ELSE value.url

\* item["name"].split(" ", 1)
NameParts(name) ==
    LET spaces == {i \in 1..Len(name) : name[i] = " "}
    IN  IF spaces = {} THEN <<name>>
        ELSE LET i == CHOOSE i \in spaces : \A j \in spaces : i <= j
             IN  <<SubSeq(name, 1, i - 1), SubSeq(name, i + 1, Len(name))>>

\* a parse that leaves the Lead without the item's id
ParseLeadFromItemWithoutId(id, item) ==
    LET first == ColumnText(item, "first_name")
        last == ColumnText(item, "last_name")
        from_name == first = <<>> /\ last = <<>> /\ item.name # <<>>
        name_parts == NameParts(item.name)
    IN  [first_name |-> IF from_name THEN name_parts[1] ELSE first,
         last_name |-> IF from_name
                       THEN (IF Len(name_parts) > 1 THEN name_parts[2] ELSE <<>>)
                       ELSE last,
         company |-> ColumnText(item, "company"),
         position |-> ColumnText(item, "position"),
         linkedin_url |-> ExtractUrl(ColumnValue(item, "linkedin")),
         status |-> ColumnText(item, "status"),
         email |-> ColumnText(item, "email"),
         phone |-> ColumnText(item, "phone"),
         source |-> ColumnText(item, "source"),
         last_message_date |-> ColumnText(item, "last_message"),
         next_action_date |-> ColumnText(item, "next_action"),
         meeting_date |-> ColumnText(item, "meeting_date"),
         conversation_log |-> ColumnText(item, "conversation"),
         notes |-> ColumnText(item, "notes"),
         lead_score |-> ParseNumber(ColumnText(item, "score")),
         item_id |-> 0]

\* _parse_lead_from_item
ParseLeadFromItem(id, item) ==
    LET first == ColumnText(item, "first_name")
        last == ColumnText(item, "last_name")
        from_name == first = <<>> /\ last = <<>> /\ item.name # <<>>
        name_parts == NameParts(item.name)
    IN  [first_name |-> IF from_name THEN name_parts[1] ELSE first,
         last_name |-> IF from_name
                       THEN (IF Len(name_parts) > 1 THEN name_parts[2] ELSE <<>>)
                       ELSE last,
         company |-> ColumnText(item, "company"),
         position |-> ColumnText(item, "position"),
         linkedin_url |-> ExtractUrl(ColumnValue(item, "linkedin")),
         status |-> ColumnText(item, "status"),
         email |-> ColumnText(item, "email"),
         phone |-> ColumnText(item, "phone"),
         source |-> ColumnText(item, "source"),
         last_message_date |-> ColumnText(item, "last_message"),
         next_action_date |-> ColumnText(item, "next_action"),
         meeting_date |-> ColumnText(item, "meeting_date"),
         conversation_log |-> ColumnText(item, "conversation"),
         notes |-> ColumnText(item, "notes"),
         lead_score |-> ParseNumber(ColumnText(item, "score")),
         item_id |-> id]

\* create_lead: the create_item mutation, applied by the CRM, which assigns the id
CreateLead(lead) ==
    /\ next_id <= MaxItems
    /\ board' = Append(board, [name |-> FullName(lead), cols |-> CreateColumnValues(lead)])
    /\ created' = Append(created, lead)
    /\ next_id' = next_id + 1
    /\ UNCHANGED <<got, now_minute, appender, writes, sequential, orig_log>>
    /\ UNCHANGED notStore

\* get_lead_by_id: None when the CRM has no such item
GetLeadById(id) ==
    /\ got' = IF id \in DOMAIN board THEN ParseLeadFromItem(id, board[id]) ELSE NoLead
    /\ UNCHANGED <<board, next_id, created, now_minute, appender, writes, sequential, orig_log>>
    /\ UNCHANGED notStore

\* the optional fields of Lead, and those with a default that is not None
OptionalFields ==
    {"email", "phone", "source", "last_message_date", "next_action_date", "meeting_date",
     "conversation_log", "notes", "lead_score"}

\* a Lead(...) not yet created, with the optional fields of `set` populated
LeadWith(first, last, set) ==
    [first_name |-> first,
     last_name |-> last,
     company |-> <<"A", "c", "m", "e">>,
     position |-> <<"H", "R">>,
     linkedin_url |-> <<"u", "r", "l">>,
     status |-> <<"N", "e", "w">>,
     email |-> IF "email" \in set THEN <<"e", "@", "x">> ELSE None,
     phone |-> IF "phone" \in set THEN <<"5", "5", "5">> ELSE None,
     source |-> IF "source" \in set THEN <<"E", "v", "e", "n", "t">> ELSE None,
     last_message_date |-> IF "last_message_date" \in set THEN <<"d", "1">> ELSE None,
     next_action_date |-> IF "next_action_date" \in set THEN <<"d", "2">> ELSE None,
     meeting_date |-> IF "meeting_date" \in set THEN <<"d", "3">> ELSE None,
     conversation_log |-> IF "conversation_log" \in set THEN <<"h", "i">> ELSE <<>>,
     notes |-> IF "notes" \in set THEN <<"n", "b">> ELSE <<>>,
     lead_score |-> IF "lead_score" \in set THEN 12 ELSE 0,
     item_id |-> 0]

\* the leads given to create_lead: none, one, all but one or all of the
\* optional fields populated
Leads ==
    {LeadWith(n[1], n[2], set) :
        n \in {<<<<"Y">>, <<"C">>>>, <<<<"Y">>, <<>>>>, <<<<>>, <<>>>>},
        set \in {f \in SUBSET OptionalFields :
                    Cardinality(f) \in {0, 1, Cardinality(OptionalFields) - 1,
                                        Cardinality(OptionalFields)}}}

InitCreateGet == GenIdle /\ WaitIdle /\ StoreIdle /\ GateIdle /\ ValIdle /\ JobIdle /\ OpIdle /\ NetIdle /\ RunIdle /\ ListIdle

NextCreateGet ==
    \/ \E lead \in Leads : CreateLead(lead)
    \/ \E id \in 1..MaxItems : GetLeadById(id)

SpecCreateGet == InitCreateGet /\ [][NextCreateGet]_vars

----------------------------------------------------------------------------
(* Claims about create_lead and get_lead_by_id *)

\* the fields of Lead but item_id
LeadFields ==
    {"first_name", "last_name", "company", "position", "linkedin_url", "status"}
    \cup OptionalFields

\* a field that holds a value: not None, not empty, not 0
Populated(lead, f) == IF f = "lead_score" THEN lead[f] # 0 ELSE Truthy(lead[f])

\* C9: the record read back by get_lead_by_id for an item that create_lead
\* made has, in every field populated in the lead supplied, the value supplied.
C9_RoundTrip ==
    got # NoLead =>
        \A f \in LeadFields :
            Populated(created[got.item_id], f) => got[f] = created[got.item_id][f]

----------------------------------------------------------------------------
(* Settings, and the pipelines that call scrape_linkedin_profile and         *)
(* send_linkedin_message                                                      *)

\* the outcomes of wait_for_agent inside launch_and_wait
WaitOutcomes == {"finished", "error", "timeout"}

\* scrape_linkedin_profile, up to the launch request of launch_and_wait
ScrapeLaunch(l) ==
    /\ pipeline[l] = "idle"
    /\ pipeline' = [pipeline EXCEPT ![l] = "scraping"]
    /\ scrapes_launched' = scrapes_launched + 1
    /\ UNCHANGED <<settings, sends_launched>>
    /\ UNCHANGED notGate

\* scrape_linkedin_profile, after wait_for_agent: a profile, or the exception
\* of an error status or of the timeout
ScrapeReturn(l, outcome) ==
    /\ pipeline[l] = "scraping"
    /\ pipeline' = [pipeline EXCEPT ![l] = IF outcome = "finished" THEN "scraped" ELSE "failed"]
    /\ UNCHANGED <<settings, scrapes_launched, sends_launched>>
    /\ UNCHANGED notGate

\* send_linkedin_message, up to the launch request of launch_and_wait
SendLaunch(l) ==
    /\ pipeline[l] = "scraped"
    /\ pipeline' = [pipeline EXCEPT ![l] = "sending"]
    /\ sends_launched' = sends_launched + 1
    /\ UNCHANGED <<settings, scrapes_launched>>
    /\ UNCHANGED notGate

\* send_linkedin_message, after wait_for_agent: True, or the exception
SendReturn(l, outcome) ==
    /\ pipeline[l] = "sending"
    /\ pipeline' = [pipeline EXCEPT ![l] = IF outcome = "finished" THEN "sent" ELSE "failed"]
    /\ UNCHANGED <<settings, scrapes_launched, sends_launched>>
    /\ UNCHANGED notGate

\* the settings are read once, from the environment
InitGate ==
    /\ GenIdle
    /\ WaitIdle
    /\ StoreIdle
    /\ GateIdleButSettings
    /\ ValIdle
    /\ JobIdle
    /\ OpIdle
    /\ NetIdle
    /\ RunIdle
    /\ ListIdle
    /\ settings \in [daily_message_limit : 1..MaxLimit,
                     daily_profile_view_limit : 1..MaxLimit,
                     require_human_approval : BOOLEAN]

NextGate ==
    \/ \E l \in Pipelines : ScrapeLaunch(l)
    \/ \E l \in Pipelines, outcome \in WaitOutcomes : ScrapeReturn(l, outcome)
    \/ \E l \in Pipelines : SendLaunch(l)
    \/ \E l \in Pipelines, outcome \in WaitOutcomes : SendReturn(l, outcome)

SpecGate == InitGate /\ [][NextGate]_vars

----------------------------------------------------------------------------
(* Claims about the daily limits and the approval flag *)

\* C7: the message sends, and the profile scrapes, started in one day never
\* exceed the configured daily limit.
C7_DailyLimitsHold ==
    /\ sends_launched <= settings.daily_message_limit
    /\ scrapes_launched <= settings.daily_profile_view_limit

\* C8: when require_human_approval is set, no message-send job is launched
\* (the code has no approval step, so every launch is automatic).
C8_NoSendWithoutApproval ==
    settings.require_human_approval => sends_launched = 0

----------------------------------------------------------------------------
(* ConversationAgent._validate_message on contents of a known number of words *)

\* the words and the whitespace a content is written with
SentenceWords == {<<"x">>, <<"a", "b">>}
Separators == {<<" ">>, <<"\n">>, <<" ", " ">>}
Paddings == {<<>>, <<" ">>}

\* n copies of the word w, joined by sep
RECURSIVE Sentence(_, _, _)
Sentence(w, n, sep) ==
    IF n = 0 THEN <<>> ELSE IF n = 1 THEN w ELSE w \o sep \o Sentence(w, n - 1, sep)

\* _validate_message runs on the content and message_type it was called with
ValidateMessageCall ==
    /\ val_pc = "called"
    /\ val_pc' = "returned"
    /\ val_verdict' = ValidateMessage(val_content, val_type)
    /\ UNCHANGED <<val_words, val_content, val_type, val_recipe>>
    /\ UNCHANGED notVal

\* a call _validate_message(content, message_type) is about to run
InitValidate ==
    /\ GenIdle
    /\ WaitIdle
    /\ StoreIdle
    /\ GateIdle
    /\ JobIdle
    /\ OpIdle
    /\ NetIdle
    /\ RunIdle
    /\ ListIdle
    /\ val_pc = "called"
    /\ val_recipe = NoRecipe
    /\ val_words \in 0..MaxWords
    /\ \E w \in SentenceWords, sep \in Separators, pad \in Paddings :
           val_content = pad \o Sentence(w, val_words, sep) \o pad
    /\ val_type \in MessageType
    /\ val_verdict = [is_valid |-> FALSE, errors |-> <<>>]

NextValidate == ValidateMessageCall

SpecValidate == InitValidate /\ [][NextValidate]_vars

\* the word-count rule has fired in the verdict
WordCountRuleFired ==
    \E i \in 1..Len(val_verdict.errors) : val_verdict.errors[i].rule = "word_count"

\* C11: the word-count rule fires exactly when the content has more than 35
\* whitespace-separated words: for a content written with 0 to 35 words
\* (30..35 and exactly 35 included) it does not fire, and for 36 words or
\* more it fires, whatever whitespace separates or surrounds the words.
C11_WordCountRuleAbove35 ==
    val_pc = "returned" =>
        /\ val_words \in 0..35 => ~WordCountRuleFired
        /\ val_words >= 36 => WordCountRuleFired

\* a content of 36 words separated by two spaces each, on which the rule fired
C11_Witness ==
    /\ val_pc = "returned"
    /\ val_words = 36
    /\ Contains(<<" ", " ">>, val_content)
    /\ WordCountRuleFired

----------------------------------------------------------------------------
(* Claims about the failures of regenerate_if_invalid *)

\* C12: regenerate_if_invalid called with max_attempts = 0 makes no completion
\* call and fails (raises) instead of returning.
C12_ZeroAttemptsFails ==
    (gen_pc # "idle" /\ max_attempts = 0) => (calls = 0 /\ gen_pc = "raised")

\* C13: with max_attempts >= 1, regenerate_if_invalid fails only when the
\* completion call has failed on every one of the max_attempts attempts: once
\* it has failed, no attempt has produced a draft and all attempts were made.
C13_FailsOnlyWhenEveryAttemptFails ==
    (gen_pc = "raised" /\ max_attempts >= 1) =>
        (Len(drafts) = 0 /\ calls = max_attempts)

----------------------------------------------------------------------------
(* Claims about generate_message *)

\* the content breaks one of the rules a message must keep
BreaksARule(content, mtype) ==
    \/ WordCount(content) > 35
    \/ \E i \in 1..Len(content) : content[i] \in {"EN_DASH", "EM_DASH"}
    \/ \E i \in 2..(Len(content) - 1) :
           content[i] = "-" /\ content[i - 1] = " " /\ content[i + 1] = " "
    \/ \A i \in 1..Len(content) : IsSpace(content[i])
    \/ /\ mtype = "first_outreach"
       /\ \E i \in 1..Len(meeting_words) : Contains(meeting_words[i], content)
    \/ /\ mtype = "first_outreach"
       /\ \E i \in 1..Len(flattery_words) : Contains(flattery_words[i], content)

\* C19: generate_message makes exactly one completion call per invocation, and
\* every call that returns text (empty text included) yields a
\* GeneratedMessage: there is one draft per call that did not fail, and a
\* draft whose content breaks a rule has is_valid false and a non-empty
\* error list.
C19_ComposeReturnsDraft ==
    /\ calls = Len(drafts) + (IF gen_pc = "raised" THEN 1 ELSE 0)
    /\ \A k \in 1..Len(drafts) :
           BreaksARule(drafts[k].content, drafts[k].message_type) =>
               (~drafts[k].is_valid /\ Len(drafts[k].validation_errors) > 0)

\* the completion returned no text and generate_message returned an invalid draft
C19_Witness ==
    \E k \in 1..Len(drafts) :
        /\ drafts[k].content = <<>>
        /\ ~drafts[k].is_valid
        /\ drafts[k].validation_errors = <<EmptyError>>
        /\ calls >= k

----------------------------------------------------------------------------
(* PhantomBusterClient.scrape_linkedin_profile and send_linkedin_message *)

JobKinds == {"scrape", "send"}

\* the `error` text the job service may hold for a run ("" when it holds none)
ErrorTexts == {<<>>, <<"b", "l", "o", "c", "k", "e", "d">>}

\* f"Profile scrape failed: {output.error_message}" / f"Message send failed: ..."
FailureMessage(kind, error_message) ==
    (IF kind = "scrape" THEN <<"Profile scrape failed: ">> ELSE <<"Message send failed: ">>)
    \o error_message

\* the operation is called and launch_and_wait has the agent launched: the job
\* service starts a new run, which it reports as launching or as running already
LaunchAgent(kind, status, err) ==
    /\ job_pc = "idle"
    /\ wait_pc = "idle"
    /\ job_kind' = kind
    /\ job_pc' = "launched"
    /\ launches' = launches + 1
    /\ remote_status' = status
    /\ run_error' = err
    /\ UNCHANGED <<job_result, job_message, late_polls, late_output>>
    /\ UNCHANGED <<wait_pc, timeout_seconds, poll_interval, start_time, clock, polls, sleeps,
                   wait_trace, output>>
    /\ UNCHANGED notJobWait

\* launch_and_wait goes on to wait_for_agent
LaunchedWait(t, p) ==
    /\ job_pc = "launched"
    /\ WaitForAgent(t, p)

\* wait_for_agent has returned or raised: `if output.status == AgentStatus.ERROR: raise
\* Exception(...)`, else the profile or True is returned; a TimeoutError passes through
OperationReturn ==
    /\ job_pc = "launched"
    /\ wait_pc \in {"returned", "timeout"}
    /\ job_pc' = "done"
    /\ IF wait_pc = "timeout"
       THEN job_result' = "TimeoutError" /\ job_message' = job_message
       ELSE IF output.status = "error"
       THEN job_result' = "Exception" /\ job_message' = FailureMessage(job_kind, run_error)
       ELSE /\ job_result' = (IF job_kind = "scrape" THEN "profile" ELSE "True")
            /\ job_message' = job_message
    /\ UNCHANGED <<job_kind, run_error, launches, late_polls, late_output>>
    /\ UNCHANGED notJob

\* get_agent_output called once more after the operation has ended
LatePoll ==
    /\ job_pc = "done"
    /\ late_polls < MaxLatePolls
    /\ late_polls' = late_polls + 1
    /\ late_output' = AgentOutput(remote_status)
    /\ UNCHANGED <<job_pc, job_kind, job_result, job_message, run_error, launches>>
    /\ UNCHANGED notJob

\* the agent's earlier run, if any, has ended when the operation is called
InitJob ==
    /\ GenIdle
    /\ StoreIdle
    /\ GateIdle
    /\ ValIdle
    /\ JobIdle
    /\ OpIdle
    /\ NetIdle
    /\ RunIdle
    /\ ListIdle
    /\ WaitIdleButClock
    /\ clock \in 0..MaxDelay
    /\ remote_status \in {"finished", "error"}

NextJob ==
    \/ \E kind \in JobKinds, status \in {"launching", "running"}, err \in ErrorTexts :
          LaunchAgent(kind, status, err)
    \/ \E t \in 0..MaxTimeout, p \in 0..MaxInterval : LaunchedWait(t, p)
    \/ \E d \in 0..MaxDelay : PollAgent(d)
    \/ SleepInterval
    \/ \E s \in ServiceStatus : RemoteStep(s)
    \/ OperationReturn
    \/ LatePoll

SpecJob == InitJob /\ [][NextJob]_vars

----------------------------------------------------------------------------
(* Claims about scrape_linkedin_profile, send_linkedin_message and the timeout *)

\* the status the job service answered to the last poll of the wait
LastAnswer == wait_trace[Len(wait_trace)]

\* C14: scrape_linkedin_profile and send_linkedin_message raise an error that
\* carries the service's error text whenever the run they awaited ended with
\* status error, they return a profile or True only when that run has ended
\* with the non-error terminal status finished, and a wait that timed out
\* is never reported as a success.
C14_OperationsTranslateJobEnd ==
    job_pc = "done" =>
        /\ (wait_pc = "returned" /\ LastAnswer = "error") =>
              /\ job_result = "Exception"
              /\ Len(job_message) = 1 + Len(run_error)
              /\ SubSeq(job_message, 2, Len(job_message)) = run_error
        /\ job_result \in {"profile", "True"} =>
              (wait_pc = "returned" /\ LastAnswer = "finished")
        /\ wait_pc = "timeout" => job_result = "TimeoutError"

\* the requests sent to the job service so far
Requests == launches + polls + late_polls

\* C15: the step in which wait_for_agent raises TimeoutError sends nothing to
\* the job service but the poll it ends with and leaves the state of the
\* remote run as it was, and a get_agent_output made afterwards reports the
\* status the run has by then, a late completion included.
C15_TimeoutLeavesJobAlone ==
    [][ /\ (wait_pc # "timeout" /\ wait_pc' = "timeout") =>
              (remote_status' = remote_status /\ Requests' = Requests + 1)
        /\ (late_polls' = late_polls + 1) =>
              late_output'.status = AgentStatusOf(remote_status) ]_vars

\* the wait timed out on a run that was still running, the run finished
\* afterwards, and a later get_agent_output saw it finished
C15_Witness ==
    /\ wait_pc = "timeout"
    /\ job_result = "TimeoutError"
    /\ \A i \in PollPositions : wait_trace[i] = "running"
    /\ remote_status = "finished"
    /\ late_polls > 0
    /\ late_output.status = "finished"

----------------------------------------------------------------------------
(* Claims about the columns create_lead writes *)

\* the key of COLUMN_IDS that holds a field of Lead
ColumnOf(f) ==
    CASE f = "linkedin_url" -> "linkedin"
      [] f = "last_message_date" -> "last_message"
      [] f = "next_action_date" -> "next_action"
      [] f = "conversation_log" -> "conversation"
      [] f = "lead_score" -> "score"
      [] OTHER -> f

\* C17: create_lead sends a column value for every populated field of the
\* Lead (identity fields, status, contact fields, source, the three dates,
\* conversation log, notes and score), sends no column for an optional field
\* that is not set, and writes no null value.
C17_CreateWritesPopulatedFields ==
    \A id \in DOMAIN board :
        /\ \A f \in LeadFields :
              Populated(created[id], f) => ColumnOf(f) \in DOMAIN board[id].cols
        /\ \A f \in OptionalFields :
              ~Populated(created[id], f) => ColumnOf(f) \notin DOMAIN board[id].cols
        /\ \A k \in DOMAIN board[id].cols : board[id].cols[k] # NullValue

----------------------------------------------------------------------------
(* MondayClient mutations and the answers of the CRM *)

\* what the CRM answers to a mutation: "data" when it has applied it, "errors"
\* for a GraphQL error reported with HTTP 200, "http_error" for a non-2xx status
Answers == {"data", "errors", "http_error"}
Refusals == {"errors", "http_error"}

\* _execute_query under a call that ignores the result: raise_for_status()
\* raises on a non-2xx status, any other answer is returned
ExecuteQueryOutcome(resp) == IF resp = "http_error" THEN "HTTPStatusError" ELSE "True"

\* create_lead under a refusal: raise_for_status() raises, or
\* result["data"]["create_item"]["id"] finds no data
CreateOutcome(resp) == IF resp = "http_error" THEN "HTTPStatusError" ELSE "KeyError"

\* the keys of field_mapping in update_lead
UpdateFields ==
    {"first_name", "last_name", "status", "email", "phone", "source", "notes",
     "next_action_date", "meeting_date", "lead_score", "company", "position"}

\* the transformers of field_mapping
Transform(f, v) ==
    CASE f \in {"first_name", "last_name", "company", "position", "lead_score"} -> v
      [] f \in {"status", "source"} -> [label |-> v]
      [] f = "email" -> [email |-> v, text |-> v]
      [] f = "phone" -> [phone |-> v]
      [] f = "notes" -> [text |-> v]
      [] f \in {"next_action_date", "meeting_date"} -> [date |-> v]

\* `if field_name in field_mapping and value is not None`
IsSent(kwargs, f) == f \in UpdateFields /\ (f = "lead_score" \/ kwargs[f] # None)

\* the dict column_values built by update_lead
UpdateColumnValues(kwargs) ==
    LET sent == {f \in DOMAIN kwargs : IsSent(kwargs, f)}
    IN  [k \in {ColumnOf(f) : f \in sent} |->
            LET f == CHOOSE g \in sent : ColumnOf(g) = k IN Transform(f, kwargs[f])]

\* the leads given to create_lead, told apart by their linkedin_url
StoreLeads ==
    { [LeadWith(<<"Y">>, <<"C">>, {}) EXCEPT !.linkedin_url = <<"u", "1">>],
      [LeadWith(<<"D">>, <<>>, OptionalFields) EXCEPT !.linkedin_url = <<"u", "2">>] }

\* the status given to update_lead_status: any text is passed through
StatusLabels == {<<"C", "o", "n", "t", "a", "c", "t", "e", "d">>}

\* the keyword arguments given to update_lead
UpdateKwargs ==
    { [status |-> <<"W", "o", "n">>],
      [notes |-> <<"n", "2">>, lead_score |-> 7],
      [linkedin_url |-> <<"u", "9">>],
      [conversation_log |-> <<"z", "z">>, company |-> <<"B", "c", "m", "e">>],
      [email |-> None],
      [last_message_date |-> <<"d", "9">>] }

\* create_lead when the CRM refuses the create_item mutation
CreateLeadRefused(lead, resp) ==
    /\ op_calls < MaxOps
    /\ op_calls' = op_calls + 1
    /\ op_name' = "create_lead"
    /\ op_item' = 0
    /\ op_kwargs' = <<>>
    /\ op_response' = resp
    /\ op_outcome' = CreateOutcome(resp)
    /\ UNCHANGED storeVars
    /\ UNCHANGED notStoreOp

\* update_lead_status(item_id, status), the CRM answering resp
UpdateLeadStatus(id, status, resp) ==
    /\ op_calls < MaxOps
    /\ resp = "data" => id \in DOMAIN board
    /\ board' = IF resp = "data"
                THEN [board EXCEPT ![id].cols = ChangeColumns(@, "status" :> [label |-> status])]
                ELSE board
    /\ op_calls' = op_calls + 1
    /\ op_name' = "update_lead_status"
    /\ op_item' = id
    /\ op_kwargs' = <<>>
    /\ op_response' = resp
    /\ op_outcome' = ExecuteQueryOutcome(resp)
    /\ UNCHANGED <<next_id, created, got, now_minute, appender, writes, sequential, orig_log>>
    /\ UNCHANGED notStoreOp

\* update_lead(item_id, **kwargs): no request when column_values is empty,
\* else the CRM answers resp
UpdateLead(id, kwargs, resp) ==
    /\ op_calls < MaxOps
    /\ resp = "data" => id \in DOMAIN board
    /\ LET column_values == UpdateColumnValues(kwargs)
       IN  IF DOMAIN column_values = {}
           THEN /\ board' = board
                /\ op_response' = "none"
                /\ op_outcome' = "True"
           ELSE /\ board' = IF resp = "data"
                            THEN [board EXCEPT ![id].cols = ChangeColumns(@, column_values)]
                            ELSE board
                /\ op_response' = resp
                /\ op_outcome' = ExecuteQueryOutcome(resp)
    /\ op_calls' = op_calls + 1
    /\ op_name' = "update_lead"
    /\ op_item' = id
    /\ op_kwargs' = kwargs
    /\ UNCHANGED <<next_id, created, got, now_minute, appender, writes, sequential, orig_log>>
    /\ UNCHANGED notStoreOp

\* the second request of append_to_conversation_log, refused by the CRM
AppendWriteRefused(p, resp) ==
    /\ op_calls < MaxOps
    /\ appender[p].pc = "read"
    /\ appender' = [appender EXCEPT ![p].pc = "idle"]
    /\ op_calls' = op_calls + 1
    /\ op_name' = "append_to_conversation_log"
    /\ op_item' = 1
    /\ op_kwargs' = <<>>
    /\ op_response' = resp
    /\ op_outcome' = ExecuteQueryOutcome(resp)
    /\ UNCHANGED <<board, next_id, created, got, now_minute, writes, sequential, orig_log>>
    /\ UNCHANGED notStoreOp

InitStoreOps == GenIdle /\ WaitIdle /\ StoreIdle /\ GateIdle /\ ValIdle /\ JobIdle /\ OpIdle /\ NetIdle /\ RunIdle /\ ListIdle

\* one caller at a time uses the store
NextStoreOps ==
    \/ \E lead \in StoreLeads : CreateLead(lead)
    \/ \E lead \in StoreLeads, resp \in Refusals : CreateLeadRefused(lead, resp)
    \/ \E id \in 1..MaxItems : GetLeadById(id)
    \/ \E id \in 1..MaxItems, status \in StatusLabels, resp \in Answers :
          UpdateLeadStatus(id, status, resp)
    \/ \E id \in 1..MaxItems, kwargs \in UpdateKwargs, resp \in Answers :
          UpdateLead(id, kwargs, resp)
    \/ AppendRead("a", <<>>)
    \/ AppendWrite("a")
    \/ \E resp \in Refusals : AppendWriteRefused("a", resp)

SpecStoreOps == InitStoreOps /\ [][NextStoreOps]_vars

----------------------------------------------------------------------------
(* Claims about the mutations of the store and about item ids *)

\* C16: when the CRM answers a mutation with a reported failure, create_lead,
\* update_lead_status, update_lead and append_to_conversation_log fail: none
\* of them returns an item id or True for a mutation the CRM did not apply.
C16_RefusedMutationFails ==
    op_response \in Refusals => op_outcome \notin {"id", "True"}

\* the value a column holds, as the text of the field it stores
FieldText(k, v) == IF k = "linkedin" THEN v.url ELSE TextOf(k, v)

\* C18: update_lead is a partial update: after a call that the CRM did not
\* refuse, every field supplied with a value holds that value on the item,
\* every column of the item that was not supplied is as before the call, and
\* so is every other item.
C18_UpdateWritesSuppliedFields ==
    [][ ( /\ op_calls' = op_calls + 1
          /\ op_name' = "update_lead"
          /\ op_response' \in {"data", "none"}
          /\ op_item' \in DOMAIN board ) =>
        LET id == op_item'
            kw == op_kwargs'
            supplied == {f \in DOMAIN kw : f = "lead_score" \/ kw[f] # None}
        IN  /\ \A f \in supplied :
                  /\ ColumnOf(f) \in DOMAIN board'[id].cols
                  /\ FieldText(ColumnOf(f), board'[id].cols[ColumnOf(f)])
                        = (IF f = "lead_score" THEN IntToText(kw[f]) ELSE kw[f])
            /\ \A k \in ColumnKeys \ {ColumnOf(f) : f \in supplied} :
                  ColumnValue(board'[id], k) = ColumnValue(board[id], k)
            /\ \A j \in DOMAIN board \ {id} : board'[j] = board[j] ]_vars

\* C20: a Lead has no item_id before create_lead, create_lead has the CRM
\* assign the next id, and no operation afterwards changes the id of an item
\* or removes an item: the ids on the board only grow, the item under an id
\* stays the item created under it, and every Lead read back carries the id
\* assigned at creation.
C20_ItemIdsOnlyGrow ==
    /\ [](/\ DOMAIN board = 1..(next_id - 1)
          /\ Len(created) = Len(board)
          /\ \A id \in DOMAIN board :
                /\ created[id].item_id = 0
                /\ ExtractUrl(ColumnValue(board[id], "linkedin")) = created[id].linkedin_url
          /\ got # NoLead =>
                /\ got.item_id \in DOMAIN board
                /\ got.linkedin_url = created[got.item_id].linkedin_url)
    /\ [][ /\ DOMAIN board \subseteq DOMAIN board'
           /\ Len(board') > Len(board) => DOMAIN board' = DOMAIN board \cup {next_id} ]_vars

\* two items created, one of them updated and appended to, and the second read back
C20_Witness ==
    /\ Len(board) = 2
    /\ created[1].linkedin_url # created[2].linkedin_url
    /\ op_name = "update_lead"
    /\ op_response = "data"
    /\ Len(writes) > 0
    /\ got # NoLead
    /\ got.item_id = 2

----------------------------------------------------------------------------
(* launch_and_wait when a request fails *)

\* what a fetch-output request can fail with: httpx raises on the transport,
\* raise_for_status() raises on a non-2xx status
PollErrors == {"ConnectError", "HTTPStatusError"}

\* a launch can also be refused in the body: _request_v1 raises Exception
\* when the answer has status "error"
LaunchErrors == PollErrors \cup {"PhantomBuster API error"}

\* the launch request of launch_and_wait fails with e: nothing catches it, so
\* launch_and_wait and the operation that called it end with e
LaunchAgentFails(kind, e) ==
    /\ job_pc = "idle"
    /\ wait_pc = "idle"
    /\ net_failure = NoFailure
    /\ job_kind' = kind
    /\ launches' = launches + 1
    /\ net_failure' = [call |-> "launch", error |-> e, requests |-> launches' + polls]
    /\ job_pc' = "done"
    /\ job_result' = e
    /\ UNCHANGED <<job_message, run_error, late_polls, late_output>>
    /\ UNCHANGED <<waitVars, genVars, storeVars, gateVars, valVars, opVars, runVars, listVars>>

\* a poll that fails is sent again
PollAgentFailsRetried(d, e) ==
    /\ job_pc = "launched"
    /\ wait_pc = "poll"
    /\ polls < MaxPolls
    /\ net_failure = NoFailure
    /\ clock' = clock + d
    /\ polls' = polls + 1
    /\ net_failure' = [call |-> "poll", error |-> e, requests |-> launches + polls']
    /\ UNCHANGED <<wait_pc, job_pc, job_result>>
    /\ UNCHANGED <<job_kind, job_message, run_error, launches, late_polls, late_output>>
    /\ UNCHANGED <<timeout_seconds, poll_interval, start_time, sleeps, wait_trace, output,
                   remote_status>>
    /\ UNCHANGED <<genVars, storeVars, gateVars, valVars, opVars, runVars, listVars>>

\* a get_agent_output request of wait_for_agent fails with e after d seconds:
\* nothing catches it, so the wait, launch_and_wait and the operation end with e
PollAgentFails(d, e) ==
    /\ job_pc = "launched"
    /\ wait_pc = "poll"
    /\ polls < MaxPolls
    /\ net_failure = NoFailure
    /\ clock' = clock + d
    /\ polls' = polls + 1
    /\ net_failure' = [call |-> "poll", error |-> e, requests |-> launches + polls']
    /\ wait_pc' = "raised"
    /\ job_pc' = "done"
    /\ job_result' = e
    /\ UNCHANGED <<job_kind, job_message, run_error, launches, late_polls, late_output>>
    /\ UNCHANGED <<timeout_seconds, poll_interval, start_time, sleeps, wait_trace, output,
                   remote_status>>
    /\ UNCHANGED <<genVars, storeVars, gateVars, valVars, opVars, runVars, listVars>>

InitJobNet == InitJob

NextJobNet ==
    \/ NextJob
    \/ \E kind \in JobKinds, e \in LaunchErrors : LaunchAgentFails(kind, e)
    \/ \E d \in 0..MaxDelay, e \in PollErrors : PollAgentFails(d, e)

SpecJobNet == InitJobNet /\ [][NextJobNet]_vars

\* C21: a failure of the launch request or of any poll request made inside
\* launch_and_wait ends the operation at once with that same error: no
\* request of the operation follows the failed one, the result is the error
\* the request failed with, and after a failed launch no poll is made.
C21_FailedRequestEndsOperation ==
    net_failure # NoFailure =>
        /\ job_pc = "done"
        /\ job_result = net_failure.error
        /\ launches + polls = net_failure.requests
        /\ net_failure.call = "launch" => (polls = 0 /\ wait_pc = "idle")
        /\ net_failure.call = "poll" => wait_pc = "raised"

\* the third poll of a wait failed on its HTTP status and the operation ended with it
C21_Witness ==
    /\ net_failure.call = "poll"
    /\ net_failure.error = "HTTPStatusError"
    /\ polls = 3
    /\ sleeps = 2
    /\ job_pc = "done"
    /\ job_result = "HTTPStatusError"

----------------------------------------------------------------------------
(* Claims about the status get_agent_output reports *)

\* C25: get_agent_output reports the status the job service answered, over
\* launching, running, finished and error: the output wait_for_agent returns
\* has the status of the last answer, so that a run answered as launching is
\* never returned as finished.
C25_LaunchingNeverFinished ==
    wait_pc = "returned" =>
        /\ output.status = LastAnswer
        /\ LastAnswer = "launching" => output.status # "finished"

----------------------------------------------------------------------------
(* Claims about the order of poll, timeout check and sleep in wait_for_agent *)

\* C26: wait_for_agent makes at least one poll before it returns or raises,
\* even with timeout_seconds = 0; it raises TimeoutError only directly after a
\* poll that answered running; a poll that answers finished or error makes
\* it return that output even when the elapsed time already exceeds
\* timeout_seconds; and it starts no sleep once the elapsed time exceeds
\* timeout_seconds.
C26_PollsBeforeGivingUp ==
    /\ [](wait_pc \in {"returned", "timeout"} => polls >= 1)
    /\ [](wait_pc = "timeout" => (Len(wait_trace) > 0 /\ LastAnswer = "running"))
    /\ [][ (wait_pc = "poll" /\ wait_pc' # "poll") =>
              /\ remote_status \in {"finished", "error"} =>
                    (wait_pc' = "returned" /\ output'.status = remote_status)
              /\ wait_pc' = "sleep" => clock' - start_time <= timeout_seconds ]_vars

\* a wait with timeout 0 whose only poll took a second and answered finished
C26_Witness ==
    /\ wait_pc = "returned"
    /\ timeout_seconds = 0
    /\ polls = 1
    /\ clock - start_time > timeout_seconds
    /\ wait_trace = <<"finished">>
    /\ output.status = "finished"

----------------------------------------------------------------------------
(* ConversationAgent._validate_message on contents written from known parts *)

\* the parts of a content: `body` plain words, a dash, a meeting keyword (its
\* place in meeting_words, 0 for none), flattery keywords (their places in
\* flattery_words, in the order they are written), and surrounding whitespace
Recipes ==
    [body : {0, 2, WordLimit + 1},
     dash : {"none", "spaced", "en", "em"},
     meeting : {0, 1, 3},
     flattery : {<<>>, <<1>>, <<4>>, <<4, 3>>, <<6, 1>>},
     pad : {<<>>, <<" ">>}]

\* the word that stands where a keyword would, in the same content without keywords
NeutralWord == <<"k">>

\* the words of a content; with_keywords = FALSE gives the same content with
\* every keyword replaced by a neutral word
RecipeWords(r, with_keywords) ==
    (IF r.meeting = 0 THEN <<>>
     ELSE <<IF with_keywords THEN meeting_words[r.meeting] ELSE NeutralWord>>)
    \o [i \in 1..Len(r.flattery) |->
           IF with_keywords THEN flattery_words[r.flattery[i]] ELSE NeutralWord]
    \o (CASE r.dash = "none" -> <<>>
          [] r.dash = "spaced" -> << <<"a">>, <<"-">>, <<"b">> >>
          [] r.dash = "en" -> << <<"a", "EN_DASH", "b">> >>
          [] r.dash = "em" -> << <<"a", "EM_DASH", "b">> >>)
    \o [i \in 1..r.body |-> <<"x">>]

\* " ".join(words)
RECURSIVE JoinWords(_)
JoinWords(ws) ==
    IF ws = <<>> THEN <<>>
    ELSE IF Len(ws) = 1 THEN ws[1]
    ELSE ws[1] \o <<" ">> \o JoinWords(Tail(ws))

RecipeContent(r, with_keywords) == r.pad \o JoinWords(RecipeWords(r, with_keywords)) \o r.pad

\* a call _validate_message(content, message_type) is about to run
InitValidateRules ==
    /\ GenIdle
    /\ WaitIdle
    /\ StoreIdle
    /\ GateIdle
    /\ JobIdle
    /\ OpIdle
    /\ NetIdle
    /\ RunIdle
    /\ ListIdle
    /\ val_pc = "called"
    /\ val_recipe \in Recipes
    /\ val_words = Len(RecipeWords(val_recipe, TRUE))
    /\ val_content = RecipeContent(val_recipe, TRUE)
    /\ val_type \in MessageType
    /\ val_verdict = [is_valid |-> FALSE, errors |-> <<>>]

NextValidateRules == ValidateMessageCall

SpecValidateRules == InitValidateRules /\ [][NextValidateRules]_vars

\* the rules a content written from recipe r breaks under message type t, in
\* the order word count, dash, emptiness, meeting keyword, flattery keyword
RulesBroken(r, t) ==
    (IF Len(RecipeWords(r, TRUE)) > 35 THEN <<"word_count">> ELSE <<>>)
    \o (IF r.dash # "none" THEN <<"dash">> ELSE <<>>)
    \o (IF RecipeWords(r, TRUE) = <<>> THEN <<"empty">> ELSE <<>>)
    \o (IF t = "first_outreach" /\ r.meeting # 0 THEN <<"meeting">> ELSE <<>>)
    \o (IF t = "first_outreach" /\ r.flattery # <<>> THEN <<"flattery">> ELSE <<>>)

\* the earliest place in flattery_words of a flattery keyword of recipe r
FirstPlace(r) ==
    CHOOSE i \in {r.flattery[j] : j \in 1..Len(r.flattery)} :
        \A j \in 1..Len(r.flattery) : i <= r.flattery[j]

\* C29: the error list of the validator has exactly one entry for each rule
\* the content breaks, in the order word count, dash, emptiness, meeting
\* keyword, flattery keyword: no broken rule hides another, and the flattery
\* rule gives one entry, for the keyword that comes first in flattery_words,
\* however many flattery keywords the content holds.
C29_OneErrorPerBrokenRule ==
    val_pc = "returned" =>
        LET errors == val_verdict.errors
        IN  /\ [i \in 1..Len(errors) |-> errors[i].rule] = RulesBroken(val_recipe, val_type)
            /\ \A i \in 1..Len(errors) :
                  /\ errors[i].rule = "flattery" =>
                        errors[i].word = flattery_words[FirstPlace(val_recipe)]
                  /\ errors[i].rule = "word_count" => errors[i].count = val_words

\* a first outreach of more than 35 words with a dash, a meeting keyword and
\* two flattery keywords written in the reverse of their fixed order: four errors
C29_Witness ==
    /\ val_pc = "returned"
    /\ val_type = "first_outreach"
    /\ val_recipe.flattery = <<4, 3>>
    /\ Len(val_verdict.errors) = 4
    /\ val_verdict.errors[4] = FlatteryError(flattery_words[3])

\* C30: the meeting and flattery keyword rules apply to first outreach only:
\* for every other message type the verdict and the error list are those of
\* the same content without the keywords, and for first outreach a content
\* with such a keyword is invalid.
C30_KeywordRulesFirstOutreachOnly ==
    val_pc = "returned" =>
        /\ val_type # "first_outreach" =>
              val_verdict = ValidateMessage(RecipeContent(val_recipe, FALSE), val_type)
        /\ ( /\ val_type = "first_outreach"
             /\ (val_recipe.meeting # 0 \/ val_recipe.flattery # <<>>) ) =>
              ~val_verdict.is_valid

\* a reply that holds a meeting keyword and a flattery keyword and is valid
C30_Witness ==
    /\ val_pc = "returned"
    /\ val_type = "reply"
    /\ val_recipe.meeting # 0
    /\ val_recipe.flattery # <<>>
    /\ val_verdict.is_valid

----------------------------------------------------------------------------
(* launch_and_wait called by two pipelines with the same agent id *)

\* launch_agent: the job service starts a new run of the agent and answers its
\* containerId, which launch_and_wait does not keep
RunLaunch(p, status) ==
    /\ runner[p].pc = "idle"
    /\ service_runs' = Append(service_runs, status)
    /\ runner' = [runner EXCEPT ![p].pc = "poll", ![p].container = Len(service_runs) + 1]
    /\ UNCHANGED notRun

\* one round of wait_for_agent: fetch-output?id={agent_id} answers the most
\* recent run of the agent; a run that is not running is returned, else the
\* wait sleeps and polls again or, the timeout exceeded, raises TimeoutError
RunPoll(p, timed_out) ==
    /\ runner[p].pc = "poll"
    /\ service_runs # <<>>
    /\ LET container_id == Len(service_runs)
           out == [container_id |-> container_id,
                   status |-> AgentOutput(service_runs[container_id]).status]
       IN  IF IsDone(out)
           THEN runner' = [runner EXCEPT ![p].pc = "returned", ![p].output = out]
           ELSE runner' = [runner EXCEPT ![p].pc = IF timed_out THEN "timeout" ELSE "poll"]
    /\ UNCHANGED service_runs
    /\ UNCHANGED notRun

\* the job service moves a run on: launching -> running -> finished | error
RunStep(i, s) ==
    /\ i \in DOMAIN service_runs
    /\ \/ service_runs[i] = "launching" /\ s = "running"
       \/ service_runs[i] = "running" /\ s \in {"finished", "error"}
    /\ service_runs' = [service_runs EXCEPT ![i] = s]
    /\ UNCHANGED runner
    /\ UNCHANGED notRun

\* the agent has never run, or its earlier run has ended
InitRuns ==
    /\ GenIdle
    /\ WaitIdle
    /\ StoreIdle
    /\ GateIdle
    /\ ValIdle
    /\ JobIdle
    /\ OpIdle
    /\ NetIdle
    /\ ListIdle
    /\ service_runs \in {<<>>, <<"finished">>, <<"error">>}
    /\ runner = [p \in Runners |-> RunnerIdle]

NextRuns ==
    \/ \E p \in Runners, status \in {"launching", "running"} : RunLaunch(p, status)
    \/ \E p \in Runners, timed_out \in BOOLEAN : RunPoll(p, timed_out)
    \/ \E i \in 1..(Cardinality(Runners) + 1), s \in ServiceStatus : RunStep(i, s)

SpecRuns == InitRuns /\ [][NextRuns]_vars

\* C24: launch_and_wait returns the output of the run it launched: whether
\* an earlier run of the agent has ended before or another pipeline launches
\* the same agent concurrently, the output returned to a pipeline is that of
\* the container its own launch started.
C24_ReturnsOwnRun ==
    \A p \in Runners :
        runner[p].pc = "returned" => runner[p].output.container_id = runner[p].container

----------------------------------------------------------------------------
(* The conversation log of one item under appends, updates and date setters *)

\* the first request of append_to_conversation_log answered without the item:
\* a body with no "data" (GraphQL errors under HTTP 200, which _execute_query
\* lets through) or with an empty `items`; current_log stays ""
AppendReadNoItem(p, tail) ==
    /\ appender[p].pc = "idle"
    /\ appender[p].calls < MaxCalls
    /\ 1 \in DOMAIN board
    /\ LET message == MessageOf(p, appender[p].calls + 1, tail)
           current_log == <<>>
       IN  appender' = [appender EXCEPT ![p] =
               [pc |-> "read",
                calls |-> @.calls + 1,
                message |-> message,
                current_log |-> current_log,
                new_log |-> ColumnWritten(current_log, current_log, now_minute, message).text,
                timestamp |-> now_minute,
                read_after |-> Len(writes)]]
    /\ sequential' = (sequential /\ \A q \in Appenders : appender[q].pc # "read")
    /\ UNCHANGED <<board, next_id, created, got, now_minute, writes, orig_log>>
    /\ UNCHANGED notStore

MinutesPerDay == 1440

\* datetime.now().strftime("%Y-%m-%d"): one token that names the day
Today(minute) == <<"d" \o ToString(minute \div MinutesPerDay)>>

\* update_last_message_date(item_id), the CRM answering resp
UpdateLastMessageDate(id, resp) ==
    /\ op_calls < MaxOps
    /\ resp = "data" => id \in DOMAIN board
    /\ board' = IF resp = "data"
                THEN [board EXCEPT ![id].cols =
                        ChangeColumns(@, "last_message" :> [date |-> Today(now_minute)])]
                ELSE board
    /\ op_calls' = op_calls + 1
    /\ op_name' = "update_last_message_date"
    /\ op_item' = id
    /\ op_kwargs' = <<>>
    /\ op_response' = resp
    /\ op_outcome' = ExecuteQueryOutcome(resp)
    /\ UNCHANGED <<next_id, created, got, now_minute, appender, writes, sequential, orig_log>>
    /\ UNCHANGED notStoreOp

\* set_meeting_date(item_id, meeting_date)
SetMeetingDate(id, meeting_date, resp) == UpdateLead(id, [meeting_date |-> meeting_date], resp)

\* set_next_action_date(item_id, next_action_date)
SetNextActionDate(id, next_action_date, resp) ==
    UpdateLead(id, [next_action_date |-> next_action_date], resp)

\* caller p is between the two requests of append_to_conversation_log
DuringAppend(p) == appender[p].pc = "read"

\* the status and the fields written while an append is between its two
\* requests, and those written while none is: told apart by their values
StatusDuringAppend == <<"C", "o", "n", "t", "a", "c", "t", "e", "d">>
StatusOutsideAppend == <<"R", "e", "p", "l", "i", "e", "d">>
KwargsDuringAppend == [notes |-> <<"n", "2">>, lead_score |-> 7]
KwargsOutsideAppend == [conversation_log |-> <<"z", "z">>, company |-> <<"B", "c", "m", "e">>]

\* one item on the board, created with some conversation log, and no call made
InitLog ==
    /\ InitAppend
    /\ OpIdle

\* caller "a" appends while other callers update the same item
NextLog ==
    \/ AppendRead("a", <<>>)
    \/ AppendReadNoItem("a", <<>>)
    \/ AppendWrite("a")
    \/ DuringAppend("a") /\ UpdateLeadStatus(1, StatusDuringAppend, "data")
    \/ ~DuringAppend("a") /\ UpdateLeadStatus(1, StatusOutsideAppend, "data")
    \/ DuringAppend("a") /\ UpdateLead(1, KwargsDuringAppend, "data")
    \/ ~DuringAppend("a") /\ UpdateLead(1, KwargsOutsideAppend, "data")
    \/ UpdateLastMessageDate(1, "data")
    \/ SetMeetingDate(1, <<"d", "5">>, "data")
    \/ SetNextActionDate(1, <<"d", "6">>, "data")

SpecLog == InitLog /\ [][NextLog]_vars

----------------------------------------------------------------------------
(* Claims about the conversation log under the operations of the store *)

\* C23: a sequential append never loses history: whatever its read returns,
\* the log stored before the call (less the leading whitespace that the
\* append trims) is a prefix of the log stored after it, and a non-empty
\* stored log is never replaced by the new entry alone.
C23_ReadNeverLosesHistory ==
    sequential =>
        \A i \in 1..Len(writes) :
            /\ StartsWith(writes[i].written, LStrip(LogBefore(i)))
            /\ Strip(LogBefore(i)) # <<>> => writes[i].written # EntryOf(writes[i])

\* a step that applies an update or a date setter
UpdateStep ==
    /\ op_calls' = op_calls + 1
    /\ op_response' = "data"

\* a step that applies the write of an append
AppendWriteStep == Len(writes') = Len(writes) + 1

\* C27: an update and an append running concurrently on the same item never
\* undo each other: the write of the append leaves every column but the
\* conversation log as the updates left it and stores the new entry; an
\* update, also one that lands between the read and the write of the append,
\* stores its status and fields and leaves the log alone; the entry written
\* last stays in the log under later updates.
C27_UpdateAndAppendKeepEachOther ==
    /\ [](Len(writes) > 0 => Contains(EntryOf(writes[Len(writes)]), StoredLog))
    /\ [][ AppendWriteStep =>
             /\ \A k \in ColumnKeys \ {"conversation"} :
                   ColumnValue(board'[1], k) = ColumnValue(board[1], k)
             /\ Contains(EntryOf(writes'[Len(writes')]), ConversationText(board'[1])) ]_vars
    /\ [][ UpdateStep =>
             /\ ConversationText(board'[1]) = ConversationText(board[1])
             /\ appender' = appender
             /\ op_name' = "update_lead_status" =>
                   board'[1].cols["status"].label =
                       (IF DuringAppend("a") THEN StatusDuringAppend ELSE StatusOutsideAppend)
             /\ op_name' = "update_lead" =>
                   \A f \in DOMAIN op_kwargs' \cap UpdateFields :
                       board'[1].cols[ColumnOf(f)] = Transform(f, op_kwargs'[f]) ]_vars

\* C27 witness: the first append has written its entry, and the status and
\* the notes that updates wrote between its read and its write are on the item
C27_Witness ==
    /\ Len(writes) = 1
    /\ appender["a"].pc = "idle"
    /\ appender["a"].current_log = orig_log
    /\ op_calls = 2
    /\ board[1].cols["status"].label = StatusDuringAppend
    /\ ColumnValue(board[1], "notes") = [text |-> KwargsDuringAppend.notes]
    /\ Contains(EntryOf(writes[1]), StoredLog)

\* C28: the conversation log of an item is append-only under every operation:
\* updates and date setters leave it unchanged, and the only change is the
\* write of an append, after which the log is the log stored before (less the
\* leading whitespace that the append trims) followed by the one new entry.
C28_LogIsAppendOnly ==
    [][ ConversationText(board'[1]) # ConversationText(board[1]) =>
          /\ AppendWriteStep
          /\ ConversationText(board'[1]) =
                JoinLog(LStrip(ConversationText(board[1])), EntryOf(writes'[Len(writes')])) ]_vars

----------------------------------------------------------------------------
(* MondayClient.get_leads_by_status and get_all_leads *)

\* items_page (limit: 100) in get_leads_by_status
StatusPageLimit == 100

\* items_page (limit: 500) in get_all_leads
AllPageLimit == 500

\* items_page (limit: n): the first n items of the board, with their ids
ItemsPage(items, limit) ==
    [i \in 1..(IF Len(items) < limit THEN Len(items) ELSE limit) |-> [id |-> i, item |-> items[i]]]

\* the Leads parsed from the entries of a page, in order
ParsedLeads(page) ==
    [i \in 1..Len(page) |-> ParseLeadFromItem(page[i].id, page[i].item)]

\* the entries of a page whose status column text equals status, in order
WithStatus(page, status) ==
    SelectSeq(page, LAMBDA entry : ColumnText(entry.item, "status") = status)

\* the list returned by get_leads_by_status(status) on a board
LeadsByStatus(items, status) ==
    LET page == ItemsPage(items, StatusPageLimit)
    IN  ParsedLeads(WithStatus(page, status))

\* the list returned by get_all_leads() on a board
AllLeads(items) ==
    LET page == ItemsPage(items, AllPageLimit)
    IN  ParsedLeads(page)

\* get_leads_by_status(status)
GetLeadsByStatus(status) ==
    /\ list_name' = "get_leads_by_status"
    /\ list_status' = status
    /\ list_result' = LeadsByStatus(board, status)
    /\ UNCHANGED storeVars
    /\ UNCHANGED notList

\* get_all_leads()
GetAllLeads ==
    /\ list_name' = "get_all_leads"
    /\ list_status' = <<>>
    /\ list_result' = AllLeads(board)
    /\ UNCHANGED storeVars
    /\ UNCHANGED notList

\* the status labels of the listed boards
ListedStatuses == {<<"N", "e", "w">>, <<"R", "e", "p", "l", "i", "e", "d">>}

\* the statuses asked for: those on the boards and one that no item has
AskedStatuses == ListedStatuses \cup {<<"L", "o", "s", "t">>}

\* the sizes of the listed boards: around the two page limits
BoardSizes == {0, 1, 2, StatusPageLimit, StatusPageLimit + 1, AllPageLimit + 1}

\* the places of the items that have replied: first, at and behind each page limit
RepliedPlaces == {1, StatusPageLimit, StatusPageLimit + 1, AllPageLimit + 1}

\* a board of n items, the items at the places in `replied` Replied, the others New
ListedBoard(n, replied) ==
    [i \in 1..n |->
        [name |-> <<"L", " ", ToString(i)>>,
         cols |-> "status" :> [label |-> IF i \in replied
                                         THEN <<"R", "e", "p", "l", "i", "e", "d">>
                                         ELSE <<"N", "e", "w">>]]]

\* a board of some size, created before, and no listing called yet
InitList ==
    /\ GenIdle
    /\ WaitIdle
    /\ GateIdle
    /\ ValIdle
    /\ JobIdle
    /\ OpIdle
    /\ NetIdle
    /\ RunIdle
    /\ ListIdle
    /\ \E n \in BoardSizes, replied \in SUBSET RepliedPlaces :
          /\ replied \subseteq 1..n
          /\ board = ListedBoard(n, replied)
          /\ next_id = n + 1
    /\ created = <<>>
    /\ got = NoLead
    /\ now_minute = 0
    /\ appender = [p \in Appenders |-> AppenderIdle]
    /\ writes = <<>>
    /\ sequential = TRUE
    /\ orig_log = <<>>

NextList ==
    \/ \E status \in AskedStatuses : GetLeadsByStatus(status)
    \/ GetAllLeads

SpecList == InitList /\ [][NextList]_vars

\* every item of the board, with its id
WholeBoard == ItemsPage(board, Len(board))

\* C22: get_leads_by_status(status) returns exactly the leads of the board
\* whose status label equals status, whatever the number of items on the
\* board, and its result equals that of get_all_leads() filtered by status.
C22_ByStatusReturnsEveryMatch ==
    list_name = "get_leads_by_status" =>
        /\ list_result = ParsedLeads(WithStatus(WholeBoard, list_status))
        /\ list_result = SelectSeq(AllLeads(board), LAMBDA lead : lead.status = list_status)

====
